---- MODULE Spec2Model ----
(***************************************************************************)
(* Task board application: the REST server (server.js) over its document   *)
(* store, the browser client's task synchronisation (AppCore), and the     *)
(* status summary widget.                                                  *)
(*                                                                         *)
(* Time is the value of Date.now(); ISO strings of the same instant are    *)
(* represented by that number.  ObjectIds and session tokens are drawn     *)
(* from counters: they are unique and, for ObjectIds, ordered by creation. *)
(***************************************************************************)
EXTENDS Integers, Sequences, FiniteSets, Bags, TLC

\* ---------------------------------------------------------------- bounds
MaxTasks == 2        \* task documents ever inserted
MaxSessions == 2     \* sessions ever created
MaxTime == 2         \* last value of the clock
MaxCalls == 1        \* fetch calls the client has in flight at once
MaxListeners == 2    \* drop listeners counted per column (saturating)
MaxCount == 4        \* largest per-column count given to the widget

\* ------------------------------------------------------------- constants
NoTime == -1         \* null / absent timestamp
Null == "null"       \* JSON null in a string-valued field
NonString == "#42"   \* a truthy title that is not a string (typeof !== 'string')
NoToken == 0         \* '' : no bearer token presented
BadId == 0           \* an :id that new ObjectId() rejects
SessionTTL == 1000 * 60 * 60 * 24 * 7

Emails == {"a@x", "b@x"}
StatusCols == <<"backlog", "in-progress", "review", "done">>
Columns == {StatusCols[i] : i \in 1..4}

VARIABLES
    users,      \* collection 'users'
    sessions,   \* collection 'sessions'
    tasks,      \* collection 'tasks'
    nextId,     \* next ObjectId to be generated
    nextTok,    \* next token to be generated
    now,        \* Date.now()
    req,        \* the last API request handled by the server
    resp,       \* its response
    handling,   \* the bag of requests suspended at an await of their handler
    local,      \* client: this.data.tasks
    cards,      \* client: the board's cards, data-id -> column
    counts,     \* client: the text of each column's .count element
    listeners,  \* client: drop listeners registered on each column
    calls,      \* client: the bag of fetch calls whose promise has not settled
    widget,     \* client: flex-basis of the four summary segments
    pinned,     \* client: the task ids rendered in #pinned-list
    recent,     \* client: the task ids rendered in .activity-list
    data,       \* client: this.data is null, an object without tasks, or one with tasks
    breakdown   \* analytics page: the overdue, due-soon and upcoming counts shown

srvVars == <<users, sessions, tasks, nextId, nextTok, now, req, resp, handling>>
cliVars == <<local, cards, counts, listeners, calls, widget, pinned, recent, data, breakdown>>
vars == <<users, sessions, tasks, nextId, nextTok, now, req, resp, handling,
          local, cards, counts, listeners, calls, widget, pinned, recent, data, breakdown>>

Has(b, k) == k \in DOMAIN b
Get(b, k, d) == IF k \in DOMAIN b THEN b[k] ELSE d
Max(a, b) == IF a >= b THEN a ELSE b
Min(a, b) == IF a <= b THEN a ELSE b

\* The deadline counts of a page that has not computed them.
NoBreakdown == [overdue |-> 0, near |-> 0, upcoming |-> 0]

\* ---------------------------------------------------------------- server
NoSession == [token |-> NoToken, userId |-> 0, createdAt |-> NoTime, expiresAt |-> NoTime]

\* db.collection('sessions').findOne({ token })
FindSession(token) ==
    IF \E s \in sessions : s.token = token
    THEN CHOOSE s \in sessions : s.token = token
    ELSE NoSession

getSession(token) ==
    IF token = NoToken THEN NoSession
    ELSE LET s == FindSession(token) IN
         IF s = NoSession \/ s.expiresAt < now THEN NoSession ELSE s

authRequiredNoExpiry(token, fault) ==
    IF fault = "auth" \/ token = NoToken THEN 0 ELSE FindSession(token).userId

\* authRequired: the userId attached to the request, 0 when it answers 401.
\* fault = "auth" is a store failure in the session lookup (caught: 401).
authRequired(token, fault) ==
    IF fault = "auth" THEN 0 ELSE getSession(token).userId

NewSessionShort(userId) ==
    [token |-> nextTok, userId |-> userId, createdAt |-> now, expiresAt |-> now + SessionTTL - 1]

\* createSession
NewSession(userId) ==
    [token |-> nextTok, userId |-> userId, createdAt |-> now, expiresAt |-> now + SessionTTL]

NoBody == [none |-> TRUE]
Reply(code, body, newTasks) == [code |-> code, body |-> body, tasks |-> newTasks]

RECURSIVE SortAsc(_)
SortAsc(S) ==
    IF S = {} THEN <<>>
    ELSE LET m == CHOOSE t \in S : \A o \in S : o.id >= t.id
         IN <<m>> \o SortAsc(S \ {m})

\* .find({ userId }).sort({ _id: -1 }).toArray()
RECURSIVE SortDesc(_)
SortDesc(S) ==
    IF S = {} THEN <<>>
    ELSE LET m == CHOOSE t \in S : \A o \in S : o.id <= t.id
         IN <<m>> \o SortDesc(S \ {m})

\* GET /api/tasks
ListHandler(token, fault) ==
    LET uid == authRequired(token, fault) IN
    IF uid = 0 THEN Reply(401, NoBody, tasks)
    ELSE IF fault = "op" THEN Reply(500, NoBody, tasks)
    ELSE Reply(200, SortDesc({t \in tasks : t.userId = uid}), tasks)

\* new Date(String(deadline).replace(' ', 'T')).toISOString(): "T<n>" is the
\* instant n, anything else makes toISOString throw (NoTime here).
ParseDeadline(d) ==
    IF d = "T1" THEN 1 ELSE IF d = "T2" THEN 2 ELSE NoTime

CreateHandlerTrusting(token, body, fault) ==
    LET uid == authRequired(token, fault)
        title == Get(body, "title", "")
        doc == [id |-> nextId,
                title |-> title,
                priority |-> Get(body, "priority", "Medium"),
                status |-> Get(body, "status", "backlog"),
                assignee |-> Get(body, "assignee", ""),
                starred |-> Get(body, "starred", FALSE),
                createdAt |-> Get(body, "createdAt", now),
                assignedAt |-> Get(body, "assignedAt", now),
                userId |-> Get(body, "userId", uid),
                deadline |-> NoTime,
                completedAt |-> NoTime]
    IN
    IF uid = 0 THEN Reply(401, NoBody, tasks)
    ELSE IF title \in {"", Null, NonString} THEN Reply(400, NoBody, tasks)
    ELSE IF fault = "op" THEN Reply(500, NoBody, tasks)
    ELSE Reply(201, doc, tasks \cup {doc})

\* POST /api/tasks
CreateHandler(token, body, fault) ==
    LET uid == authRequired(token, fault)
        title == Get(body, "title", "")
        dl == Get(body, "deadline", "")
        doc == [id |-> nextId,
                title |-> title,
                priority |-> Get(body, "priority", "Medium"),
                status |-> Get(body, "status", "backlog"),
                assignee |-> Get(body, "assignee", ""),
                starred |-> Get(body, "starred", FALSE),
                createdAt |-> now,
                assignedAt |-> now,
                userId |-> uid,
                deadline |-> IF dl \in {"", Null} THEN NoTime ELSE ParseDeadline(dl),
                completedAt |-> NoTime]
    IN
    IF uid = 0 THEN Reply(401, NoBody, tasks)
    ELSE IF title \in {"", Null, NonString} THEN Reply(400, NoBody, tasks)
    ELSE IF fault = "op" THEN Reply(500, NoBody, tasks)
    ELSE Reply(201, doc, tasks \cup {doc})

MutableAndOwner == {"title", "priority", "status", "assignee", "starred", "deadline", "userId"}

\* The keys PATCH copies from the request body.
Mutable == {"title", "priority", "status", "assignee", "starred", "deadline"}

\* The $set document PATCH builds from the body at the current time.
PatchUpdateOf(body) ==
    LET picked == [k \in (DOMAIN body) \cap Mutable |-> body[k]]
        dlOk == Has(picked, "deadline") /\ picked.deadline \notin {"", Null}
        parsed == IF dlOk THEN ParseDeadline(picked.deadline) ELSE NoTime
        \* a truthy deadline is normalised, or dropped when it does not parse;
        \* a falsy one ('' or null) is stored as sent (null here)
        keys1 == IF dlOk /\ parsed = NoTime
                 THEN DOMAIN picked \ {"deadline"} ELSE DOMAIN picked
        upd1 == [k \in keys1 |->
                   IF k = "deadline" THEN parsed ELSE picked[k]]
        done == Has(upd1, "status") /\ upd1.status = "done"
    IN IF done
       THEN [k \in keys1 \cup {"completedAt"} |->
               IF k = "completedAt" THEN now ELSE upd1[k]]
       ELSE upd1

PatchUpdateClearing(body) ==
    LET u == PatchUpdateOf(body) IN
    IF Has(u, "status") /\ u.status # "done"
    THEN [k \in DOMAIN u \cup {"completedAt"} |-> IF k = "completedAt" THEN NoTime ELSE u[k]]
    ELSE u

\* lines 184-200
PatchUpdate(body) == PatchUpdateOf(body)

SetFieldsWhole(doc, update) ==
    [k \in DOMAIN doc |->
        IF k \in DOMAIN update THEN update[k]
        ELSE IF k = "title" THEN ""
        ELSE IF k = "priority" THEN "Medium"
        ELSE IF k = "status" THEN "backlog"
        ELSE IF k = "assignee" THEN ""
        ELSE IF k = "starred" THEN FALSE
        ELSE doc[k]]

\* { $set: update } on one document
SetFields(doc, update) ==
    [k \in DOMAIN doc |-> IF k \in DOMAIN update THEN update[k] ELSE doc[k]]

OwnedAnyUser(id, uid) == {t \in tasks : t.id = id}

\* findOneAndUpdate / deleteOne filter { _id, userId }
Owned(id, uid) == {t \in tasks : t.id = id /\ t.userId = uid}

PatchHandlerStampOnce(token, id, body, fault) ==
    LET uid == authRequired(token, fault)
        hit == Owned(id, uid)
    IN
    IF uid = 0 THEN Reply(401, NoBody, tasks)
    ELSE IF id = BadId \/ fault = "op" THEN Reply(500, NoBody, tasks)
    ELSE IF hit = {} THEN Reply(404, NoBody, tasks)
    ELSE LET old == CHOOSE t \in hit : TRUE
             set == SetFields(old, PatchUpdate(body))
             new == IF old.completedAt # NoTime
                    THEN [set EXCEPT !.completedAt = old.completedAt] ELSE set
         IN Reply(200, new, (tasks \ {old}) \cup {new})

\* PATCH /api/tasks/:id
PatchHandler(token, id, body, fault) ==
    LET uid == authRequired(token, fault)
        hit == Owned(id, uid)
    IN
    IF uid = 0 THEN Reply(401, NoBody, tasks)
    ELSE IF id = BadId \/ fault = "op" THEN Reply(500, NoBody, tasks)
    ELSE IF hit = {} THEN Reply(404, NoBody, tasks)
    ELSE LET old == CHOOSE t \in hit : TRUE
             new == SetFields(old, PatchUpdate(body))
         IN Reply(200, new, (tasks \ {old}) \cup {new})

DeleteHandlerNoCount(token, id, fault) ==
    LET uid == authRequired(token, fault)
        hit == Owned(id, uid)
    IN
    IF uid = 0 THEN Reply(401, NoBody, tasks)
    ELSE IF id = BadId \/ fault = "op" THEN Reply(500, NoBody, tasks)
    ELSE Reply(200, NoBody, tasks \ hit)

DeleteHandlerMany(token, id, fault) ==
    LET uid == authRequired(token, fault)
        hit == Owned(id, uid)
    IN
    IF uid = 0 THEN Reply(401, NoBody, tasks)
    ELSE IF id = BadId \/ fault = "op" THEN Reply(500, NoBody, tasks)
    ELSE IF hit = {} THEN Reply(404, NoBody, tasks)
    ELSE Reply(200, NoBody, {t \in tasks : t.userId # uid})

\* DELETE /api/tasks/:id
DeleteHandler(token, id, fault) ==
    LET uid == authRequired(token, fault)
        hit == Owned(id, uid)
    IN
    IF uid = 0 THEN Reply(401, NoBody, tasks)
    ELSE IF id = BadId \/ fault = "op" THEN Reply(500, NoBody, tasks)
    ELSE IF hit = {} THEN Reply(404, NoBody, tasks)
    ELSE Reply(200, NoBody, tasks \ hit)

verifyAny(password, stored) == TRUE

\* hashPassword / verifyPassword: the stored form is salt:hash.
hashPassword(password, salt) == [salt |-> salt, hash |-> <<salt, password>>]
verifyPassword(password, stored) == stored.hash = <<stored.salt, password>>

\* ------------------------------------------------------- server actions
Faults == {"none", "auth", "op"}
Tokens == 0..MaxSessions
Ids == 0..MaxTasks

\* token is the bearer token of the Authorization header, cookie the token
\* cookie of the request (NoToken when absent).
Request(op, token, cookie, id, body, fault) ==
    [op |-> op, token |-> token, cookie |-> cookie, id |-> id, body |-> body,
     fault |-> fault]
Answer(code, body) == [code |-> code, body |-> body]

\* POST /api/auth/signup
Signup(name, email, password, fault) ==
    /\ req' = Request("signup", NoToken, NoToken, BadId, [name |-> name, email |-> email, password |-> password], fault)
    /\ IF name = "" \/ email = "" \/ password = ""
       THEN /\ resp' = Answer(400, NoBody)
            /\ UNCHANGED <<users, sessions, nextTok>>
       ELSE IF fault # "none"
       THEN /\ resp' = Answer(500, NoBody)
            /\ UNCHANGED <<users, sessions, nextTok>>
       ELSE IF \E u \in users : u.email = email
       THEN /\ resp' = Answer(409, NoBody)
            /\ UNCHANGED <<users, sessions, nextTok>>
       ELSE LET uid == Cardinality(users) + 1 IN
            /\ users' = users \cup {[id |-> uid, name |-> name, email |-> email,
                                     passwordHash |-> hashPassword(password, uid)]}
            /\ sessions' = sessions \cup {NewSession(uid)}
            /\ nextTok' = nextTok + 1
            /\ resp' = Answer(201, [token |-> nextTok, id |-> uid])
    /\ UNCHANGED <<tasks, nextId, now, handling>>

\* POST /api/auth/signup up to its second await (lines 101-104): the
\* fields are validated and the email is looked up; the request is answered
\* 400 or 409, or goes on to wait for its insertOne.
SignupCheck(name, email, password) ==
    LET body == [name |-> name, email |-> email, password |-> password] IN
    /\ req' = Request("signup", NoToken, NoToken, BadId, body, "none")
    /\ IF name = "" \/ email = "" \/ password = ""
       THEN resp' = Answer(400, NoBody) /\ UNCHANGED handling
       ELSE IF \E u \in users : u.email = email
       THEN resp' = Answer(409, NoBody) /\ UNCHANGED handling
       ELSE resp' = Answer(0, NoBody) /\ handling' = handling (+) SetToBag({body})
    /\ UNCHANGED <<users, sessions, tasks, nextId, nextTok, now>>

\* POST /api/auth/signup from insertOne on (lines 105-108), for a request
\* that passed its lookup.
SignupInsert(body, fault) ==
    /\ BagIn(body, handling)
    /\ handling' = handling (-) SetToBag({body})
    /\ req' = Request("signup", NoToken, NoToken, BadId, body, fault)
    /\ IF fault # "none"
       THEN /\ resp' = Answer(500, NoBody)
            /\ UNCHANGED <<users, sessions, nextTok>>
       ELSE LET uid == Cardinality(users) + 1 IN
            /\ users' = users \cup {[id |-> uid, name |-> body.name, email |-> body.email,
                                     passwordHash |-> hashPassword(body.password, uid)]}
            /\ sessions' = sessions \cup {NewSession(uid)}
            /\ nextTok' = nextTok + 1
            /\ resp' = Answer(201, [token |-> nextTok, id |-> uid])
    /\ UNCHANGED <<tasks, nextId, now>>

\* POST /api/auth/login
Login(email, password, fault) ==
    /\ req' = Request("login", NoToken, NoToken, BadId, [email |-> email, password |-> password], fault)
    /\ LET found == {u \in users : u.email = email} IN
       IF email = "" \/ password = ""
       THEN /\ resp' = Answer(400, NoBody)
            /\ UNCHANGED <<sessions, nextTok>>
       ELSE IF fault # "none"
       THEN /\ resp' = Answer(500, NoBody)
            /\ UNCHANGED <<sessions, nextTok>>
       ELSE IF found = {} \/ ~verifyPassword(password, (CHOOSE u \in found : TRUE).passwordHash)
       THEN /\ resp' = Answer(401, NoBody)
            /\ UNCHANGED <<sessions, nextTok>>
       ELSE LET u == CHOOSE u \in found : TRUE IN
            /\ sessions' = sessions \cup {NewSession(u.id)}
            /\ nextTok' = nextTok + 1
            /\ resp' = Answer(200, [token |-> nextTok, id |-> u.id])
    /\ UNCHANGED <<users, tasks, nextId, now, handling>>

revokeUser(store, token) ==
    {x \in store : \A y \in store : y.token = token => x.userId # y.userId}

revokeSome(store, token) ==
    IF \E x \in store : x.token = token THEN {x \in store : x.token # token}
    ELSE IF store = {} THEN store
    ELSE store \ {CHOOSE x \in store : TRUE}

\* db.collection('sessions').deleteOne({ token }) (line 136)
revoke(store, token) == {x \in store : x.token # token}

\* The answers to a request whose async handler rejects outside any
\* try/catch, by the version of express installed: none (code 0, the
\* rejection is unhandled) or the default error handler's 500.
Unhandled == {0, 500}

\* POST /api/auth/logout: deleteOne runs outside any try/catch.
Logout(token, cookie, fault) ==
    /\ req' = Request("logout", token, cookie, BadId, NoBody, fault)
    /\ IF authRequired(token, fault) = 0
       THEN resp' = Answer(401, NoBody) /\ UNCHANGED sessions
       ELSE IF fault = "op"
       THEN (\E code \in Unhandled : resp' = Answer(code, NoBody)) /\ UNCHANGED sessions
       ELSE /\ sessions' = revoke(sessions, token)
            /\ resp' = Answer(200, NoBody)
    /\ UNCHANGED <<users, tasks, nextId, nextTok, now, handling>>

\* GET /api/auth/me: findOne runs outside any try/catch.
Me(token, cookie, fault) ==
    LET uid == authRequired(token, fault)
        found == {u \in users : u.id = uid}
    IN
    /\ req' = Request("me", token, cookie, BadId, NoBody, fault)
    /\ IF uid = 0 THEN resp' = Answer(401, NoBody)
       ELSE IF fault = "op" THEN \E code \in Unhandled : resp' = Answer(code, NoBody)
       ELSE IF found = {} THEN resp' = Answer(404, NoBody)
       ELSE LET u == CHOOSE u \in found : TRUE
            IN resp' = Answer(200, [id |-> u.id, name |-> u.name, email |-> u.email])
    /\ UNCHANGED <<users, sessions, tasks, nextId, nextTok, now, handling>>

\* ---------------------------------------------------------------- pages
LoginPage == "/login.html"
AllowedPages == {"/login.html", "/signup.html"}

\* tokenHeader || tokenCookie || '' (lines 36-40 and 235-239)
RequestToken(header, cookie) == IF header # NoToken THEN header ELSE cookie

\* The page protection middleware (lines 31-48): TRUE when it calls next(),
\* FALSE when it redirects.  lookupFails is a store failure in its findOne,
\* which the empty catch swallows before next().
PageGatePasses(path, header, cookie, lookupFails) ==
    LET token == RequestToken(header, cookie) IN
    IF path \in AllowedPages THEN TRUE
    ELSE IF token = NoToken THEN FALSE
    ELSE IF lookupFails THEN TRUE
    ELSE FindSession(token) # NoSession

\* sessionFromRequest (lines 234-241), when its findOne does not fail
sessionFromRequest(header, cookie) ==
    LET token == RequestToken(header, cookie) IN
    IF token = NoToken THEN NoSession ELSE FindSession(token)

Redirect == Answer(302, [file |-> LoginPage])
Served(path) == Answer(200, [file |-> IF path = "/" THEN "/index.html" ELSE path])

\* The response to GET path: the middleware, then express.static with
\* index: false (which sends every existing .html file and passes '/' on),
\* then the route of '/' (lines 247-251), whose lookup has no try/catch.
\* fault "auth" is a store failure in the middleware's lookup, "op" one in
\* the route's lookup.
PageResponse(path, header, cookie, fault) ==
    IF ~PageGatePasses(path, header, cookie, fault = "auth") THEN Redirect
    ELSE IF path # "/" THEN Served(path)
    ELSE IF RequestToken(header, cookie) # NoToken /\ fault = "op" THEN Answer(0, NoBody)
    ELSE IF sessionFromRequest(header, cookie) = NoSession THEN Redirect
    ELSE Served(path)

\* GET of an HTML view
GetPage(path, header, cookie, fault) ==
    /\ req' = Request("page", header, cookie, BadId, [path |-> path], fault)
    /\ resp' = PageResponse(path, header, cookie, fault)
    /\ UNCHANGED <<users, sessions, tasks, nextId, nextTok, now, handling>>

ListTasks(token, cookie, fault) ==
    LET r == ListHandler(token, fault) IN
    /\ req' = Request("list", token, cookie, BadId, NoBody, fault)
    /\ resp' = Answer(r.code, r.body)
    /\ UNCHANGED <<users, sessions, tasks, nextId, nextTok, now, handling>>

CreateTask(token, cookie, body, fault) ==
    LET r == CreateHandler(token, body, fault) IN
    /\ req' = Request("create", token, cookie, BadId, body, fault)
    /\ resp' = Answer(r.code, r.body)
    /\ tasks' = r.tasks
    /\ nextId' = IF r.code = 201 THEN nextId + 1 ELSE nextId
    /\ UNCHANGED <<users, sessions, nextTok, now, handling>>

PatchTask(token, cookie, id, body, fault) ==
    LET r == PatchHandler(token, id, body, fault) IN
    /\ req' = Request("patch", token, cookie, id, body, fault)
    /\ resp' = Answer(r.code, r.body)
    /\ tasks' = r.tasks
    /\ UNCHANGED <<users, sessions, nextId, nextTok, now, handling>>

DeleteTask(token, cookie, id, fault) ==
    LET r == DeleteHandler(token, id, fault) IN
    /\ req' = Request("delete", token, cookie, id, NoBody, fault)
    /\ resp' = Answer(r.code, r.body)
    /\ tasks' = r.tasks
    /\ UNCHANGED <<users, sessions, nextId, nextTok, now, handling>>

\* The clock advances by d milliseconds, to one of the instants observed.
Elapse(d, instants) ==
    /\ now + d \in instants
    /\ now' = now + d
    /\ UNCHANGED <<users, sessions, tasks, nextId, nextTok, req, resp, handling>>

\* The clock advances.
Tick ==
    /\ now < MaxTime
    /\ now' = now + 1
    /\ UNCHANGED <<users, sessions, tasks, nextId, nextTok, req, resp, handling>>


\* ---------------------------------------------------------------- client
RoundPctFloor(s, total) == Max(0, (100 * s) \div total)

\* Math.max(0, Math.round((s / total) * 100)): Math.round rounds halves up.
\* For the totals the model reaches the quotient is exact or further than
\* 1/(2*total) from a half, so floating point rounds as the integers do.
RoundPct(s, total) == Max(0, (200 * s + total) \div (2 * total))

\* updateTasksStatusWidget, lines 926-954: the four flex-basis values.
updateTasksStatusWidget(count) ==
    LET total == Max(1, count["backlog"] + count["in-progress"] + count["review"] + count["done"])
        rb == RoundPct(count["backlog"], total)
        rp == RoundPct(count["in-progress"], total)
        rr == RoundPct(count["review"], total)
        rd0 == RoundPct(count["done"], total)
        sum0 == rb + rp + rr + rd0
        rd1 == IF sum0 = 0 THEN 100 ELSE rd0
        sum1 == IF sum0 = 0 THEN 100 ELSE sum0
        rd == IF sum1 # 100 THEN Max(0, rd1 + (100 - sum1)) ELSE rd1
    IN [c \in Columns |->
          IF c = "backlog" THEN rb
          ELSE IF c = "in-progress" THEN rp
          ELSE IF c = "review" THEN rr
          ELSE rd]

\* querySelectorAll('.kanban-column[data-status=c] .kanban-card').length
CardCount(cs) == [c \in Columns |-> Cardinality({i \in DOMAIN cs : cs[i] = c})]

LocalIds(loc) == {loc[i].id : i \in 1..Len(loc)}
Find(loc, id) == CHOOSE i \in 1..Len(loc) : loc[i].id = id
TaskOf(loc, id) == loc[Find(loc, id)]

\* _renderBoard: one card per local task, in the column of its status
\* (byStatus[task.status] || byStatus['backlog']).
RenderBoard(loc) ==
    [i \in LocalIds(loc) |->
       LET t == TaskOf(loc, i) IN
       IF t.status \in Columns THEN t.status ELSE "backlog"]

\* every _renderBoard call adds one more drop listener to each column
AddListener(n) == Min(n + 1, MaxListeners)

PinnedLimit == 6

renderPinnedAny(loc) == [i \in 1..Min(Len(loc), PinnedLimit) |-> loc[i].id]

\* renderPinnedTasks: tasks.filter(t => t.starred).slice(0, 6)
renderPinnedTasks(loc) ==
    LET IsStarred(t) == t.starred
        st == SelectSeq(loc, IsStarred)
    IN [i \in 1..Min(Len(st), PinnedLimit) |-> st[i].id]

\* (t.createdAt || 0)
SortKey(t) == IF t.createdAt = NoTime THEN 0 ELSE t.createdAt

\* tasks.slice().sort((a, b) => (b.createdAt||0) - (a.createdAt||0)): the
\* indices of the list in the sorted order; the sort is stable, so tasks
\* with equal keys keep their list order.
RECURSIVE SortedByCreated(_, _)
SortedByCreated(loc, left) ==
    IF left = {} THEN <<>>
    ELSE LET m == CHOOSE i \in left :
                    \A j \in left :
                        \/ SortKey(loc[i]) > SortKey(loc[j])
                        \/ SortKey(loc[i]) = SortKey(loc[j]) /\ i <= j
         IN <<m>> \o SortedByCreated(loc, left \ {m})

renderRecentOldest(loc) ==
    LET order == SortedByCreated(loc, 1..Len(loc))
    IN [k \in 1..Min(Len(order), 5) |-> loc[order[Len(order) + 1 - k]].id]

\* renderRecentActivity: the sorted copy's first five (lines 874-878)
RecentLimit == 5
renderRecentActivity(loc) ==
    LET order == SortedByCreated(loc, 1..Len(loc))
    IN [k \in 1..Min(Len(order), RecentLimit) |-> loc[order[k]].id]

\* The client's own token (localStorage 'token').
MyToken == 1

Call(kind, id, body, prev) ==
    [kind |-> kind, id |-> id, body |-> body, prev |-> prev,
     stage |-> "sent", code |-> 0, rbody |-> NoBody]
InFlight == BagToSet(calls)
Issue(bag, c) == bag (+) SetToBag({c})
Settle(bag, c) == bag (-) SetToBag({c})
CanCall == BagCardinality(calls) < MaxCalls

RECURSIVE IssueAll(_, _)
IssueAll(bag, cs) ==
    IF cs = <<>> THEN bag ELSE IssueAll(Issue(bag, Head(cs)), Tail(cs))

DropListenerAlways(st, id, status) ==
    IF id \notin LocalIds(st.local) THEN st
    ELSE LET k == Find(st.local, id)
             cs == IF id \in DOMAIN st.cards
                   THEN [st.cards EXCEPT ![id] = status] ELSE st.cards
         IN [local |-> [st.local EXCEPT ![k].status = status],
             cards |-> cs,
             counts |-> CardCount(cs),
             widget |-> updateTasksStatusWidget(CardCount(cs)),
             issued |-> Append(st.issued, [id |-> id, body |-> [status |-> status],
                                           prev |-> st.local[k].status])]

DropListenerNoMove(st, id, status) ==
    IF id \notin LocalIds(st.local) \/ TaskOf(st.local, id).status = status
    THEN st
    ELSE LET k == Find(st.local, id) IN
         [st EXCEPT !.local = [st.local EXCEPT ![k].status = status],
                    !.issued = Append(@, [id |-> id, body |-> [status |-> status],
                                          prev |-> st.local[k].status])]

\* One drop listener of a column (lines 669-687), up to its await.  st is
\* the client state the listener sees; the result is the state it leaves.
DropListener(st, id, status) ==
    IF id \notin LocalIds(st.local) \/ TaskOf(st.local, id).status = status
    THEN st
    ELSE LET k == Find(st.local, id)
             prev == st.local[k].status
             cs == IF id \in DOMAIN st.cards
                   THEN [st.cards EXCEPT ![id] = status] ELSE st.cards
         IN [local |-> [st.local EXCEPT ![k].status = status],
             cards |-> cs,
             counts |-> CardCount(cs),
             widget |-> updateTasksStatusWidget(CardCount(cs)),
             issued |-> Append(st.issued, [id |-> id, body |-> [status |-> status], prev |-> prev])]

RECURSIVE DropEvent(_, _, _, _)
DropEvent(n, st, id, status) ==
    IF n = 0 THEN st ELSE DropEvent(n - 1, DropListener(st, id, status), id, status)

\* A card is dropped on a column: every registered drop listener runs.
\* limit is the number of calls the page may then have in flight.
DropWithin(id, status, limit) ==
    LET st0 == [local |-> local, cards |-> cards, counts |-> counts,
                widget |-> widget, issued |-> <<>>]
        st == DropEvent(listeners, st0, id, status)
    IN /\ listeners > 0
       /\ BagCardinality(calls) + Len(st.issued) <= limit
       /\ local' = st.local
       /\ cards' = st.cards
       /\ counts' = st.counts
       /\ widget' = st.widget
       /\ calls' = IssueAll(calls,
            [j \in 1..Len(st.issued) |->
                Call("drop", st.issued[j].id, st.issued[j].body, st.issued[j].prev)])
       /\ UNCHANGED <<listeners, pinned, recent, data, breakdown>>

Drop(id, status) == DropWithin(id, status, MaxCalls)

SetLocal(loc, id, field, v) ==
    IF id \in LocalIds(loc) THEN [loc EXCEPT ![Find(loc, id)][field] = v] ELSE loc

\* Star button of a card (lines 633-644), up to its await.
Star(id) ==
    /\ id \in DOMAIN cards
    /\ id \in LocalIds(local)
    /\ CanCall
    /\ LET next == ~TaskOf(local, id).starred IN
       /\ local' = SetLocal(local, id, "starred", next)
       /\ pinned' = renderPinnedTasks(local')
       /\ calls' = Issue(calls, Call("star", id, [starred |-> next], ""))
    /\ UNCHANGED <<cards, counts, listeners, widget, recent, data, breakdown>>

\* Unpin button of a pinned card (lines 845-851), up to its await.
Unpin(id) ==
    /\ \E j \in 1..Len(pinned) : pinned[j] = id
    /\ CanCall
    /\ local' = SetLocal(local, id, "starred", FALSE)
    /\ calls' = Issue(calls, Call("unpin", id, [starred |-> FALSE], ""))
    /\ UNCHANGED <<cards, counts, listeners, widget, pinned, recent, data, breakdown>>

DeleteClickOptimistic(id) ==
    /\ id \in DOMAIN cards
    /\ CanCall
    /\ calls' = Issue(calls, Call("delete", id, NoBody, ""))
    /\ local' = LET Other(t) == t.id # id IN SelectSeq(local, Other)
    /\ UNCHANGED <<cards, counts, listeners, widget, pinned, recent, data, breakdown>>

\* Delete button of a card (lines 707-712), up to its await.
DeleteClick(id) ==
    /\ id \in DOMAIN cards
    /\ CanCall
    /\ calls' = Issue(calls, Call("delete", id, NoBody, ""))
    /\ UNCHANGED <<local, cards, counts, listeners, widget, pinned, recent, data, breakdown>>

EditSubmitOptimistic(id, next) ==
    /\ id \in DOMAIN cards
    /\ id \in LocalIds(local)
    /\ CanCall
    /\ calls' = Issue(calls, Call("edit", id, next, ""))
    /\ local' = [local EXCEPT ![Find(local, id)].title = next.title,
                              ![Find(local, id)].status = next.status]
    /\ UNCHANGED <<cards, counts, listeners, widget, pinned, recent, data, breakdown>>

\* Save in the edit dialog of a card (lines 762-775), up to its await: the
\* dialog sends title, priority, status, assignee and, when filled, deadline.
EditSubmit(id, next) ==
    /\ id \in DOMAIN cards
    /\ id \in LocalIds(local)
    /\ CanCall
    /\ calls' = Issue(calls, Call("edit", id, next, ""))
    /\ UNCHANGED <<local, cards, counts, listeners, widget, pinned, recent, data, breakdown>>

Creating ==
    BagCardinality([c \in {d \in InFlight : d.kind \in {"quick", "form"} /\ d.stage = "sent"}
                      |-> CopiesIn(c, calls)])

QuickAddOptimistic(title, priority) ==
    /\ title # ""
    /\ CanCall
    /\ nextId + Creating <= MaxTasks
    /\ calls' = Issue(calls, Call("quick", BadId,
                   [title |-> title, priority |-> priority, status |-> "backlog"], ""))
    /\ local' = Append(local, [id |-> BadId, title |-> title, priority |-> priority,
                               status |-> "backlog", assignee |-> "", starred |-> FALSE,
                               createdAt |-> now, assignedAt |-> now, deadline |-> NoTime,
                               completedAt |-> NoTime])
    /\ UNCHANGED <<cards, counts, listeners, widget, pinned, recent, data, breakdown>>

\* setupQuickAdd.submit (lines 805-812), up to its await.
QuickAdd(title, priority) ==
    IF title = "" THEN UNCHANGED cliVars
    ELSE /\ CanCall
         /\ nextId + Creating <= MaxTasks
         /\ calls' = Issue(calls, Call("quick", BadId,
                        [title |-> title, priority |-> priority, status |-> "backlog"], ""))
         /\ UNCHANGED <<local, cards, counts, listeners, widget, pinned, recent, data, breakdown>>

\* Submit of the new-task form (lines 563-577), up to its await.
FormSubmit(title, priority, status, assignee) ==
    IF title = "" THEN UNCHANGED cliVars
    ELSE /\ CanCall
         /\ nextId + Creating <= MaxTasks
         /\ calls' = Issue(calls, Call("form", BadId,
                        [title |-> title, priority |-> priority, status |-> status,
                         assignee |-> assignee], ""))
         /\ UNCHANGED <<local, cards, counts, listeners, widget, pinned, recent, data, breakdown>>

\* The server handles the request of a fetch call.
Serve(c, fault) ==
    /\ c \in InFlight
    /\ c.stage = "sent"
    /\ LET r == IF c.kind \in {"quick", "form"} THEN CreateHandler(MyToken, c.body, fault)
                ELSE IF c.kind = "delete" THEN DeleteHandler(MyToken, c.id, fault)
                ELSE PatchHandler(MyToken, c.id, c.body, fault)
           keep == c.kind \in {"quick", "form", "edit"} /\ r.code \in {200, 201}
       IN /\ tasks' = r.tasks
          /\ nextId' = IF r.code = 201 THEN nextId + 1 ELSE nextId
          /\ calls' = Issue(Settle(calls, c),
                [c EXCEPT !.stage = "served", !.code = r.code,
                          !.rbody = IF keep THEN r.body ELSE NoBody])
    /\ UNCHANGED <<users, sessions, nextTok, now, req, resp, handling>>
    /\ UNCHANGED <<local, cards, counts, listeners, widget, pinned, recent, data, breakdown>>

\* res.ok
Ok(code) == code >= 200 /\ code <= 299

\* The record the create handlers push from the response (lines 581-594, 815).
LocalRecord(created) ==
    [id |-> created.id, title |-> created.title, priority |-> created.priority,
     status |-> created.status, assignee |-> created.assignee,
     starred |-> created.starred, createdAt |-> created.createdAt,
     assignedAt |-> created.assignedAt, deadline |-> created.deadline,
     completedAt |-> NoTime]

\* Object.assign(task, updated): the fields of the server document overwrite
\* the local ones; completedAt is a field of the document once it was stamped.
Merge(t, updated) ==
    [t EXCEPT !.title = updated.title, !.priority = updated.priority,
              !.status = updated.status, !.assignee = updated.assignee,
              !.starred = updated.starred, !.createdAt = updated.createdAt,
              !.assignedAt = updated.assignedAt, !.deadline = updated.deadline,
              !.completedAt = IF updated.completedAt # NoTime
                              THEN updated.completedAt ELSE t.completedAt]

Rerender(loc) ==
    /\ cards' = RenderBoard(loc)
    /\ counts' = CardCount(RenderBoard(loc))
    /\ listeners' = AddListener(listeners)
    /\ widget' = updateTasksStatusWidget(CardCount(RenderBoard(loc)))

\* What the handler does with the local list once its fetch resolved with a
\* response of the given code and body.
AfterResponse(c, loc) ==
    IF c.kind \in {"quick", "form"} /\ Ok(c.code) THEN Append(loc, LocalRecord(c.rbody))
    ELSE IF c.kind = "delete" /\ Ok(c.code)
         THEN LET Other(t) == t.id # c.id IN SelectSeq(loc, Other)
    ELSE IF c.kind = "edit" /\ Ok(c.code) /\ c.id \in LocalIds(loc)
         THEN [loc EXCEPT ![Find(loc, c.id)] = Merge(@, c.rbody)]
    ELSE loc

\* The fetch of a call resolves with the server's response and the handler
\* runs to its end.
Complete(c) ==
    /\ c \in InFlight
    /\ c.stage = "served"
    /\ calls' = Settle(calls, c)
    /\ local' = AfterResponse(c, local)
    /\ IF c.kind \in {"quick", "form", "delete", "edit"} /\ Ok(c.code)
       THEN Rerender(local')
       ELSE UNCHANGED <<cards, counts, listeners, widget>>
    /\ IF c.kind = "unpin" \/ (c.kind \in {"quick", "delete"} /\ Ok(c.code))
       THEN pinned' = renderPinnedTasks(local')
       ELSE UNCHANGED pinned
    /\ IF c.kind \in {"quick", "form"} /\ Ok(c.code)
       THEN recent' = renderRecentActivity(local')
       ELSE UNCHANGED recent
    /\ UNCHANGED <<data, breakdown>>
    /\ UNCHANGED srvVars

AfterRejectRevertStar(c, loc) ==
    IF c.kind \in {"star", "unpin"} THEN SetLocal(loc, c.id, "starred", ~c.body.starred)
    ELSE IF c.kind = "drop" THEN SetLocal(loc, c.id, "status", c.prev)
    ELSE loc

\* What the catch block of a handler does with the local list (lines
\* 688-689 for a drop; the other catch blocks are empty).
AfterReject(c, loc) ==
    IF c.kind = "drop" THEN SetLocal(loc, c.id, "status", c.prev) ELSE loc

\* The fetch of a call rejects (network error), before or after the server
\* handled the request, and the handler's catch block runs.
NetFail(c) ==
    /\ c \in InFlight
    /\ calls' = Settle(calls, c)
    /\ local' = AfterReject(c, local)
    /\ IF c.kind = "drop"
       THEN LET cs == IF c.prev \in Columns /\ c.id \in DOMAIN cards
                      THEN [cards EXCEPT ![c.id] = c.prev] ELSE cards
            IN /\ cards' = cs
               /\ counts' = CardCount(cs)
               /\ widget' = updateTasksStatusWidget(CardCount(cs))
               /\ UNCHANGED <<listeners, pinned, recent, data, breakdown>>
       ELSE /\ pinned' = IF c.kind = "unpin" THEN renderPinnedTasks(local') ELSE pinned
            /\ UNCHANGED recent
            /\ UNCHANGED <<cards, counts, listeners, widget>>
    /\ UNCHANGED <<data, breakdown>>
    /\ UNCHANGED srvVars

\* ---------------------------------------------------------- specifications
NoReq == Request("none", NoToken, NoToken, BadId, NoBody, "none")
EmptyFn == [x \in {} |-> 0]

ClientInit ==
    /\ local = <<>>
    /\ cards = EmptyFn
    /\ counts = [c \in Columns |-> 0]
    /\ listeners = 0
    /\ calls = EmptyBag
    /\ widget = [c \in Columns |-> 0]
    /\ pinned = <<>>
    /\ recent = <<>>
    /\ data = "tasks"
    /\ breakdown = NoBreakdown

\* The server after connectMongo() on an empty database.
Init ==
    /\ users = {}
    /\ sessions = {}
    /\ tasks = {}
    /\ nextId = 1
    /\ nextTok = 1
    /\ now = 0
    /\ req = NoReq
    /\ resp = Answer(0, NoBody)
    /\ handling = EmptyBag
    /\ ClientInit

\* Request bodies the API is driven with under Spec.
CreateBodies == { [title |-> "a"], [title |-> ""] }
PatchBodies == { [status |-> "done"], [title |-> "c", userId |-> 2] }

\* Two users and their tasks: the task API driven with any token and id.
Next ==
    \/ /\ \E e \in Emails : Signup("n", e, "p", "none")
       /\ UNCHANGED cliVars
    \/ /\ \E t \in Tokens : ListTasks(t, NoToken, "none")
       /\ UNCHANGED cliVars
    \/ /\ nextId <= MaxTasks
       /\ \E t \in Tokens, b \in CreateBodies : CreateTask(t, NoToken, b, "none")
       /\ UNCHANGED cliVars
    \/ /\ \E t \in Tokens, i \in Ids, b \in PatchBodies : PatchTask(t, NoToken, i, b, "none")
       /\ UNCHANGED cliVars
    \/ /\ \E t \in Tokens, i \in Ids : DeleteTask(t, NoToken, i, "none")
       /\ UNCHANGED cliVars

Spec == Init /\ [][Next]_vars

\* C1: a task of user A is never in a list returned to another user B, and
\* an update or delete by B with the id of A's task answers 404 and leaves
\* the task collection (so A's task) as it was; no request changes a task's
\* owner.
Caller(token) == getSession(token).userId
C1_ListOnlyOwn ==
    (req.op = "list" /\ resp.code = 200) =>
        \A k \in 1..Len(resp.body) : resp.body[k].userId = Caller(req.token)
C1_ForeignRejected ==
    \A t \in tasks :
        (/\ req'.op \in {"patch", "delete"}
         /\ req'.id = t.id
         /\ Caller(req'.token) \notin {0, t.userId})
        => (resp'.code = 404 /\ tasks' = tasks)
C1_OwnerFixed ==
    \A t \in tasks, u \in tasks' : t.id = u.id => t.userId = u.userId
C1_Isolation == [][C1_ListOnlyOwn' /\ C1_ForeignRejected /\ C1_OwnerFixed]_vars

C1_Witness ==
    /\ req.op \in {"patch", "delete"}
    /\ resp.code = 404
    /\ \E t \in tasks : t.id = req.id /\ Caller(req.token) \notin {0, t.userId}

\* ------------------------------------------------------------- completion
MaxDoneTasks == 1
DoneCreateBodies == { [title |-> "a"], [title |-> "b", status |-> "done"] }
DonePatchBodies ==
    { [status |-> s] : s \in {"backlog", "review", "done"} }
    \cup { [title |-> "c", completedAt |-> NoTime] }

\* One user, the clock, and updates of status.
NextDone ==
    \/ /\ Signup("n", "a@x", "p", "none")
       /\ UNCHANGED cliVars
    \/ /\ nextId <= MaxDoneTasks
       /\ \E b \in DoneCreateBodies : CreateTask(MyToken, NoToken, b, "none")
       /\ UNCHANGED cliVars
    \/ /\ \E i \in 1..MaxDoneTasks, b \in DonePatchBodies : PatchTask(MyToken, NoToken, i, b, "none")
       /\ UNCHANGED cliVars
    \/ /\ Tick
       /\ UNCHANGED cliVars

SpecDone == Init /\ [][NextDone]_vars

SetsStatus(r, s) == r.op = "patch" /\ Has(r.body, "status") /\ r.body.status = s

\* C10: a successful update that sets status to done leaves completedAt
\* stamped on the stored task, and no later request (in particular no update
\* to a non-done status) clears or removes a completedAt that is set.
C10_Stamped ==
    (SetsStatus(req, "done") /\ resp.code = 200) =>
        /\ resp.body.completedAt # NoTime
        /\ \A t \in tasks : t.id = req.id => t.completedAt # NoTime
C10_NotCleared ==
    \A t \in tasks, u \in tasks' :
        (t.id = u.id /\ t.completedAt # NoTime) => u.completedAt # NoTime
C10_CompletedAtKept == [][C10_Stamped' /\ C10_NotCleared]_vars

C10_Witness ==
    /\ req.op = "patch" /\ resp.code = 200
    /\ Has(req.body, "status") /\ req.body.status # "done"
    /\ \E t \in tasks : t.id = req.id /\ t.status # "done" /\ t.completedAt # NoTime

\* C11: once a task has a completedAt value, no later request changes that
\* value (completedAt is set exactly once, at the first transition to done).
C11_SetOnce ==
    [][\A t \in tasks, u \in tasks' :
          (t.id = u.id /\ t.completedAt # NoTime) => u.completedAt = t.completedAt]_vars

\* C12: every successful update whose body sets status to done leaves the
\* stored and the returned task with completedAt equal to the time of that
\* update, whatever the stored status and completedAt were before, so a
\* second update to done at a later time overwrites the earlier stamp.
C12_StampsNow ==
    [][(SetsStatus(req', "done") /\ resp'.code = 200 /\ now' = now) =>
          /\ resp'.body.completedAt = now
          /\ \E u \in tasks' : u.id = req'.id /\ u.completedAt = now /\ u.status = "done"
          /\ \A u \in tasks' : u.id = req'.id => u.completedAt = now]_vars

C12_Witness ==
    /\ SetsStatus(req, "done") /\ resp.code = 200
    /\ now = MaxTime
    /\ \E t \in tasks :
          t.id = req.id /\ t.status = "done" /\ t.createdAt < now /\ t.completedAt = now

\* ------------------------------------------------------------ the widget
ZeroCount == [c \in Columns |-> 0]

\* A page showing any number of cards in each column.
InitWidget ==
    /\ users = {} /\ sessions = {} /\ tasks = {}
    /\ nextId = 1 /\ nextTok = 1 /\ now = 0
    /\ req = NoReq /\ resp = Answer(0, NoBody)
    /\ handling = EmptyBag
    /\ local = <<>> /\ cards = EmptyFn /\ listeners = 0 /\ calls = EmptyBag /\ pinned = <<>>
    /\ recent = <<>>
    /\ data = "tasks" /\ breakdown = NoBreakdown
    /\ widget = ZeroCount
    /\ counts \in [Columns -> 0..MaxCount]

\* updateTasksStatusWidget runs on the counts shown.
UpdateWidget ==
    /\ widget' = updateTasksStatusWidget(counts)
    /\ UNCHANGED <<local, cards, counts, listeners, calls, pinned, recent, data, breakdown>>
    /\ UNCHANGED srvVars

NextWidget == UpdateWidget

SpecWidget == InitWidget /\ [][NextWidget]_vars

WidgetSum == widget["backlog"] + widget["in-progress"] + widget["review"] + widget["done"]
CountTotal == counts["backlog"] + counts["in-progress"] + counts["review"] + counts["done"]

\* C8: for any non-negative counts the four widths the widget is given are
\* whole percentages >= 0 that sum to exactly 100.
C8_SumIs100 ==
    widget # ZeroCount =>
        /\ \A c \in Columns : widget[c] \in 0..100
        /\ WidgetSum = 100

\* r is the share s/total as a percentage, rounded to the nearest whole
\* number (a half rounds up).
IsRoundedShare(r, s, total) ==
    /\ 2 * r * total - total <= 200 * s
    /\ 200 * s < 2 * r * total + total

\* C9: backlog, in-progress and review are given their share of the total
\* rounded to a whole percentage, the done segment alone takes what is left
\* of 100, and with all four counts zero done is 100 and the others are 0.
C9_RoundedShares ==
    widget # ZeroCount =>
        /\ \A c \in {"backlog", "in-progress", "review"} :
              IsRoundedShare(widget[c], counts[c], Max(1, CountTotal))
        /\ widget["done"] =
              Max(0, 100 - (widget["backlog"] + widget["in-progress"] + widget["review"]))
        /\ CountTotal = 0 =>
              widget = [c \in Columns |-> IF c = "done" THEN 100 ELSE 0]

C9_Witness ==
    /\ widget # ZeroCount
    /\ counts["done"] = 0
    /\ widget["done"] = 1
    /\ widget["backlog"] = 33

\* ------------------------------------------------------- the board client
\* A signed-up user has opened the tasks page: the (empty) task list is
\* loaded, initTasksPage has rendered the board once and set the widget.
InitClient ==
    /\ users = {[id |-> 1, name |-> "n", email |-> "a@x", passwordHash |-> hashPassword("p", 1)]}
    /\ sessions = {[token |-> MyToken, userId |-> 1, createdAt |-> 0, expiresAt |-> SessionTTL]}
    /\ tasks = {}
    /\ nextId = 1
    /\ nextTok = 2
    /\ now = 0
    /\ req = NoReq
    /\ resp = Answer(0, NoBody)
    /\ handling = EmptyBag
    /\ local = <<>>
    /\ cards = EmptyFn
    /\ counts = ZeroCount
    /\ listeners = 1
    /\ calls = EmptyBag
    /\ widget = updateTasksStatusWidget(ZeroCount)
    /\ pinned = <<>>
    /\ recent = <<>>
    /\ data = "tasks"
    /\ breakdown = NoBreakdown

MaxBoardTasks == 1   \* tasks created under the drag specification
DropTargets == {"in-progress", "done"}

\* Drag and drop: quick-add, drops, the calls' progress, and the same user
\* deleting a task from another tab.
NextDrag ==
    \/ /\ nextId + Creating <= MaxBoardTasks
       /\ QuickAdd("a", "Medium")
       /\ UNCHANGED srvVars
    \/ /\ \E i \in 1..MaxBoardTasks, col \in DropTargets : Drop(i, col)
       /\ UNCHANGED srvVars
    \/ \E c \in InFlight, f \in Faults : Serve(c, f)
    \/ \E c \in InFlight : Complete(c)
    \/ \E c \in InFlight : NetFail(c)
    \/ /\ \E i \in 1..MaxBoardTasks : DeleteTask(MyToken, NoToken, i, "none")
       /\ UNCHANGED cliVars

SpecDrag == InitClient /\ [][NextDrag]_vars

\* A call's promise settles in this step / a call is issued in this step.
Completes(c) ==
    /\ CopiesIn(c, calls') < CopiesIn(c, calls)
    /\ BagCardinality(calls') < BagCardinality(calls)
IssuedNow(c) ==
    /\ CopiesIn(c, calls') > CopiesIn(c, calls)
    /\ BagCardinality(calls') > BagCardinality(calls)
\* The call failed: its fetch rejected before the server answered, or the
\* server answered with a failure status.
Failed(c) == c.stage = "sent" \/ ~Ok(c.code)

\* C2: when the update call of a drop fails (network error, or a 401, 404
\* or 500 response), the task's local status is again the status captured
\* before the drop, its card is back in that column, and the column counts
\* are recomputed.
C2_RevertOnFailure ==
    [][\A c \in InFlight :
          (c.kind = "drop" /\ Completes(c) /\ Failed(c) /\ c.id \in LocalIds(local'))
          => /\ TaskOf(local', c.id).status = c.prev
             /\ cards'[c.id] = c.prev
             /\ counts' = CardCount(cards')]_vars

\* C3: a drop on a column other than the task's current status sets the
\* local status to that column, moves the card there and recomputes the
\* counts in the very step that issues the update call (the call is then
\* still unanswered), and the call's body holds the status field alone.
C3_OptimisticDrop ==
    [][/\ \A i \in LocalIds(local), col \in Columns :
            (Drop(i, col) /\ TaskOf(local, i).status # col)
            => /\ TaskOf(local', i).status = col
               /\ cards'[i] = col
               /\ counts' = CardCount(cards')
               /\ \E c \in BagToSet(calls') : IssuedNow(c) /\ c.kind = "drop" /\ c.id = i
       /\ \A c \in BagToSet(calls') :
            (c.kind = "drop" /\ IssuedNow(c))
            => /\ c.stage = "sent"
               /\ DOMAIN c.body = {"status"}
               /\ c.prev = TaskOf(local, c.id).status
               /\ c.body.status # c.prev
               /\ TaskOf(local', c.id).status = c.body.status]_vars

C3_Witness ==
    \E c \in InFlight :
        /\ c.kind = "drop" /\ c.stage = "sent"
        /\ c.id \in LocalIds(local)
        /\ c.body.status # c.prev
        /\ TaskOf(local, c.id).status = c.body.status
        /\ cards[c.id] = c.body.status
        /\ counts[c.body.status] = 1 /\ counts[c.prev] = 0

\* ------------------------------------------------ create, edit and delete
MaxApplyTasks == 1   \* tasks created under the create/edit/delete specification

\* What the edit dialog of task i sends when the title is retyped as `title`
\* and `status` is selected.
EditBody(i, title, status) ==
    [title |-> title, priority |-> TaskOf(local, i).priority, status |-> status,
     assignee |-> TaskOf(local, i).assignee]

NextApply ==
    \/ /\ nextId + Creating <= MaxApplyTasks
       /\ \E t \in {"", "a"} : QuickAdd(t, "Medium")
       /\ UNCHANGED srvVars
    \/ /\ nextId + Creating <= MaxApplyTasks
       /\ \E t \in {"", "b"} : FormSubmit(t, "High", "review", "z")
       /\ UNCHANGED srvVars
    \/ /\ \E i \in 1..MaxApplyTasks : DeleteClick(i)
       /\ UNCHANGED srvVars
    \/ /\ \E i \in LocalIds(local), st \in {"backlog", "done"} :
            EditSubmit(i, EditBody(i, "c", st))
       /\ UNCHANGED srvVars
    \/ \E c \in InFlight, f \in Faults : Serve(c, f)
    \/ \E c \in InFlight : Complete(c)
    \/ \E c \in InFlight : NetFail(c)

SpecApply == InitClient /\ [][NextApply]_vars

IsCreate(c) == c.kind \in {"quick", "form"}
Succeeds(c) == Completes(c) /\ c.stage = "served" /\ Ok(c.code)

\* C4: the local list gains a record only in the step in which a create call
\* returns with success; the record appended holds the fields of the
\* document the server stored and returned; a create call that fails, and a
\* submit with an empty title (which issues no call), leave the list as it
\* was.
C4_ListGrows ==
    (Len(local') > Len(local) \/ ~(LocalIds(local') \subseteq LocalIds(local)))
    => \E c \in InFlight :
          /\ IsCreate(c) /\ Succeeds(c)
          /\ Len(local') = Len(local) + 1
          /\ SubSeq(local', 1, Len(local)) = local
          /\ LET r == local'[Len(local')] IN
             /\ r.id = c.rbody.id /\ r.title = c.rbody.title
             /\ r.priority = c.rbody.priority /\ r.status = c.rbody.status
             /\ r.assignee = c.rbody.assignee /\ r.starred = c.rbody.starred
             /\ r.createdAt = c.rbody.createdAt /\ r.assignedAt = c.rbody.assignedAt
C4_ServerRecord ==
    \A c \in BagToSet(calls') :
        (IsCreate(c) /\ c.stage = "served" /\ Ok(c.code) /\ CopiesIn(c, calls) = 0)
        => (c.rbody \in tasks' /\ c.rbody \notin tasks /\ c.rbody.title = c.body.title)
C4_FailureLeaves ==
    \A c \in InFlight :
        (IsCreate(c) /\ Completes(c) /\ Failed(c)) => local' = local
C4_NoEmptyTitle ==
    \A c \in InFlight : IsCreate(c) => c.body.title # ""
C4_ConfirmThenCreate ==
    [][C4_ListGrows /\ C4_ServerRecord /\ C4_FailureLeaves /\ C4_NoEmptyTitle']_vars

C4_Witness ==
    /\ Len(local) = 1
    /\ calls = EmptyBag
    /\ \E t \in tasks : t.id = local[1].id /\ t.title = local[1].title /\ t.status = local[1].status

\* C5: a task leaves the local list only in the step in which a delete call
\* for it returns with success; issuing the call, the call being served, and
\* the call failing all leave the list as it was.
C5_RemovedOnSuccess ==
    \A i \in LocalIds(local) \ LocalIds(local') :
        \E c \in InFlight : c.kind = "delete" /\ c.id = i /\ Succeeds(c)
C5_OtherwiseKept ==
    \A c \in InFlight \cup BagToSet(calls') :
        (c.kind = "delete" /\ ~Succeeds(c) /\ CopiesIn(c, calls') # CopiesIn(c, calls))
        => local' = local
C5_ConfirmThenDelete == [][C5_RemovedOnSuccess /\ C5_OtherwiseKept]_vars

C5_Witness ==
    \E c \in InFlight :
        /\ c.kind = "delete" /\ c.stage = "served" /\ c.code = 200
        /\ c.id \in LocalIds(local)
        /\ \A t \in tasks : t.id # c.id

\* C6: a field of a local task record changes only in the step in which an
\* edit call for that task returns with success, and then title, priority,
\* status and assignee are the ones of the document the server returned;
\* issuing the call, the call being served and the call failing leave every
\* field of the record as it was.
C6_ChangedOnSuccess ==
    \A i \in LocalIds(local) \cap LocalIds(local') :
        TaskOf(local', i) # TaskOf(local, i)
        => \E c \in InFlight :
              /\ c.kind = "edit" /\ c.id = i /\ Succeeds(c)
              /\ TaskOf(local', i).id = i
              /\ TaskOf(local', i).title = c.rbody.title
              /\ TaskOf(local', i).priority = c.rbody.priority
              /\ TaskOf(local', i).status = c.rbody.status
              /\ TaskOf(local', i).assignee = c.rbody.assignee
C6_SuccessMerges ==
    \A c \in InFlight :
        (c.kind = "edit" /\ Ok(c.code) /\ Complete(c) /\ c.id \in LocalIds(local))
        => /\ c.id \in LocalIds(local')
           /\ TaskOf(local', c.id).title = c.rbody.title
           /\ TaskOf(local', c.id).priority = c.rbody.priority
           /\ TaskOf(local', c.id).status = c.rbody.status
           /\ TaskOf(local', c.id).assignee = c.rbody.assignee
C6_ConfirmThenEdit == [][C6_ChangedOnSuccess /\ C6_SuccessMerges]_vars

C6_Witness ==
    /\ calls = EmptyBag
    /\ \E i \in LocalIds(local) : \E t \in tasks :
          /\ t.id = i /\ t.title = "c" /\ TaskOf(local, i).title = "c"
          /\ t.status = "done" /\ TaskOf(local, i).status = "done"

\* ------------------------------------------------------------ star and pin
MaxStarTasks == 2   \* tasks created under the star/unpin specification

NextStar ==
    \/ /\ nextId + Creating <= MaxStarTasks
       /\ QuickAdd("a", "Medium")
       /\ UNCHANGED srvVars
    \/ /\ \E i \in LocalIds(local) : Star(i)
       /\ UNCHANGED srvVars
    \/ /\ \E i \in LocalIds(local) : Unpin(i)
       /\ UNCHANGED srvVars
    \/ \E c \in InFlight, f \in Faults : Serve(c, f)
    \/ \E c \in InFlight : Complete(c)
    \/ \E c \in InFlight : NetFail(c)

SpecStar == InitClient /\ [][NextStar]_vars

IsToggle(c) == c.kind \in {"star", "unpin"}

\* C7: a click on the star button sets the local starred flag to its
\* negation, and a click on unpin sets it to false, in the very step that
\* issues the update call (the call is still unserved); the step in which a
\* star or unpin call ends, with success, with a failure response or with a
\* network error, leaves the local list as it was, so a failed call never
\* reverts the flag.
C7_FlipsAtOnce ==
    \A c \in BagToSet(calls') :
        (IsToggle(c) /\ IssuedNow(c))
        => /\ c.stage = "sent"
           /\ DOMAIN c.body = {"starred"}
           /\ c.id \in LocalIds(local)
           /\ TaskOf(local', c.id).starred = c.body.starred
           /\ c.kind = "star" => c.body.starred = ~TaskOf(local, c.id).starred
           /\ c.kind = "unpin" => c.body.starred = FALSE
C7_NotReverted ==
    \A c \in InFlight : (IsToggle(c) /\ Completes(c)) => local' = local
C7_StarOptimistic == [][C7_FlipsAtOnce /\ C7_NotReverted]_vars

C7_Witness ==
    /\ calls = EmptyBag
    /\ \E i \in LocalIds(local) : \E t \in tasks :
          t.id = i /\ TaskOf(local, i).starred /\ ~t.starred

\* --------------------------------------------------------------- sessions
\* The instants at which requests are made: the first ones, and the ones
\* around the expiry of the sessions created then.
Instants == (0..MaxTime) \cup ((SessionTTL - 1)..(SessionTTL + MaxTime))
Elapses == {1, SessionTTL - 1}
Pages == {"/", "/tasks.html", "/login.html"}
Passwords == {"p", "q"}
Cookies == {NoToken, MyToken}

\* One user signing up, logging in and out while the clock runs past the
\* sessions' expiry; logout, me and the pages requested with any header
\* token, with and without the cookie of the first session, also while the
\* store fails.
NextSession ==
    \/ /\ nextTok <= MaxSessions
       /\ Signup("n", "a@x", "p", "none")
       /\ UNCHANGED cliVars
    \/ /\ nextTok <= MaxSessions
       /\ \E pw \in Passwords : Login("a@x", pw, "none")
       /\ UNCHANGED cliVars
    \/ /\ \E t \in Tokens, c \in Cookies, f \in Faults : Logout(t, c, f)
       /\ UNCHANGED cliVars
    \/ /\ \E t \in Tokens, c \in Cookies, f \in Faults : Me(t, c, f)
       /\ UNCHANGED cliVars
    \/ /\ \E pg \in Pages, t \in Tokens, c \in Cookies, f \in Faults : GetPage(pg, t, c, f)
       /\ UNCHANGED cliVars
    \/ /\ \E d \in Elapses : Elapse(d, Instants)
       /\ UNCHANGED cliVars

SpecSession == Init /\ [][NextSession]_vars

\* The stored session of a token, if any.
Stored(t) == {s \in sessions : s.token = t}
\* The request is one the step has just handled.
Handled(op) == req'.op = op /\ now' = now

\* C13: resolving a token gives no session when no session has the token
\* or when the session's expiresAt <= now, and gives the session otherwise.
C13_Resolve ==
    \A t \in Tokens :
        getSession(t) = IF \E s \in Stored(t) : ~(s.expiresAt <= now)
                        THEN CHOOSE s \in Stored(t) : TRUE
                        ELSE NoSession

\* C14: for every session store, time and token presented in the
\* Authorization header, a protected page is served exactly when the API
\* gate admits the request.
C14_SameGate ==
    \A t \in Tokens, pg \in Pages \ AllowedPages :
        (PageResponse(pg, t, NoToken, "none").code = 200)
        <=> (authRequired(t, "none") # 0)

\* C15: a GET of an HTML view other than the login and signup pages whose
\* header and cookie hold no token of a valid session is answered with a
\* redirect to the login page, also when the session lookup fails.
C15_PagesGated ==
    [][(/\ Handled("page")
        /\ req'.body.path \notin AllowedPages
        /\ getSession(req'.token) = NoSession
        /\ getSession(req'.cookie) = NoSession)
       => resp' = Redirect]_vars

\* A token that was issued and whose session has been deleted (sessions are
\* deleted by logout only, and tokens are not issued twice).
Revoked(t) == t \in 1..(nextTok - 1) /\ Stored(t) = {}

\* C17: once a token has been logged out, every API request presenting it
\* is answered 401 and every request of a protected page presenting it is
\* redirected to the login page.
C17_LoggedOut ==
    [][(/\ now' = now
        /\ Revoked(req'.token)
        /\ req'.cookie = NoToken)
       => /\ req'.op \in {"me", "logout"} => resp'.code = 401
          /\ (req'.op = "page" /\ req'.body.path \notin AllowedPages) => resp' = Redirect]_vars

\* C18: deleting the session of a token that has no stored session (it was
\* already revoked, or never issued) leaves the session store as it is, and
\* deleting twice gives the store that deleting once gives; a logout
\* answered 200 leaves the store equal to that single revocation, and a
\* logout with a token that has no stored session changes nothing.
C18_Idempotent ==
    \A t \in Tokens :
        /\ revoke(revoke(sessions, t), t) = revoke(sessions, t)
        /\ Stored(t) = {} => revoke(sessions, t) = sessions
C18_Logout ==
    Handled("logout") =>
        /\ resp'.code = 200 => sessions' = revoke(sessions, req'.token)
        /\ resp'.code = 200 => revoke(sessions', req'.token) = sessions'
        /\ Stored(req'.token) = {} => sessions' = sessions
C19_LoginSucceeds ==
    (Handled("login") /\ req'.body.password = "p" /\ users # {})
    => /\ resp'.code = 200
       /\ \E s \in sessions' \ sessions :
            /\ sessions' = sessions \cup {s}
            /\ s.token = resp'.body.token
            /\ Stored(s.token) = {}
            /\ \E u \in users : u.email = req'.body.email /\ s.userId = u.id
            /\ s.createdAt = now
            /\ s.expiresAt = now + 1000 * 60 * 60 * 24 * 7
C19_WrongPassword ==
    (Handled("login") /\ req'.body.password # "p") => (resp'.code = 401 /\ sessions' = sessions)
C19_Resolves ==
    \A s \in sessions : now < s.expiresAt => getSession(s.token) = s
C19_LoginSession == [][C19_LoginSucceeds /\ C19_WrongPassword /\ C19_Resolves']_vars

C19_Witness ==
    /\ req.op = "login" /\ resp.code = 200
    /\ \E s \in Stored(resp.body.token) :
          /\ s.createdAt > 0
          /\ now = s.expiresAt - 1
          /\ getSession(s.token) = s

\* ------------------------------------------------------------ the API gate
MaxGuardTasks == 1   \* tasks created under the API gate specification

Expired == {SessionTTL + 1}
Protected == {"me", "logout", "list", "create", "patch", "delete"}

\* Two users; every protected endpoint requested with any header token,
\* with no cookie or the cookie of either user's session, before and after
\* the first sessions expire, also while the store fails.
GuardCookies == {NoToken, MyToken, MyToken + 1}
GateFaults == {"none", "auth"}

NextGuard ==
    \/ /\ nextTok <= MaxSessions
       /\ \E e \in Emails : Signup("n", e, "p", "none")
       /\ UNCHANGED cliVars
    \/ /\ \E t \in Tokens, c \in GuardCookies, f \in Faults : Logout(t, c, f)
       /\ UNCHANGED cliVars
    \/ /\ \E t \in Tokens, c \in GuardCookies, f \in Faults : Me(t, c, f)
       /\ UNCHANGED cliVars
    \/ /\ \E t \in Tokens, c \in GuardCookies, f \in GateFaults : ListTasks(t, c, f)
       /\ UNCHANGED cliVars
    \/ /\ nextId <= MaxGuardTasks
       /\ \E t \in Tokens, c \in GuardCookies, f \in GateFaults : CreateTask(t, c, [title |-> "a"], f)
       /\ UNCHANGED cliVars
    \/ /\ \E t \in Tokens, c \in GuardCookies, i \in 1..MaxGuardTasks, f \in GateFaults :
            PatchTask(t, c, i, [starred |-> TRUE], f)
       /\ UNCHANGED cliVars
    \/ /\ \E t \in Tokens, c \in GuardCookies, i \in 1..MaxGuardTasks, f \in GateFaults :
            DeleteTask(t, c, i, f)
       /\ UNCHANGED cliVars
    \/ /\ Elapse(SessionTTL + 1, Expired)
       /\ UNCHANGED cliVars

SpecGuard == Init /\ [][NextGuard]_vars

\* C16: a request to a protected endpoint whose bearer token has no stored,
\* unexpired session is answered 401 and leaves users, sessions and tasks
\* as they were, whatever cookie it carries; a request that is answered
\* with success acted as the user of the bearer token's session: me returns
\* that user, list returns only that user's tasks, create stores a task of
\* that user, update and delete touch only tasks of that user, and logout
\* deletes that token's session.
C16_Rejected ==
    (/\ now' = now
     /\ req'.op \in Protected
     /\ \A s \in Stored(req'.token) : s.expiresAt < now)
    => /\ resp'.code = 401
       /\ users' = users /\ sessions' = sessions /\ tasks' = tasks
C16_ActsAsSession ==
    (now' = now /\ req'.op \in Protected /\ resp'.code \in {200, 201})
    => \E s \in Stored(req'.token) :
          /\ req'.op = "me" => resp'.body.id = s.userId
          /\ req'.op = "list" =>
                \A k \in 1..Len(resp'.body) : resp'.body[k].userId = s.userId
          /\ req'.op = "create" =>
                /\ resp'.body.userId = s.userId
                /\ tasks' = tasks \cup {resp'.body}
          /\ req'.op \in {"patch", "delete"} =>
                \A t \in (tasks \ tasks') \cup (tasks' \ tasks) : t.userId = s.userId
          /\ req'.op = "logout" => sessions' = sessions \ {s}
          /\ req'.op # "logout" => sessions' = sessions
C16_ApiGate == [][C16_Rejected /\ C16_ActsAsSession]_vars

C16_Witness ==
    /\ req.op \in {"create", "patch", "delete"}
    /\ resp.code = 401 /\ req.fault = "none"
    /\ getSession(req.cookie) # NoSession
    /\ \E s \in Stored(req.token) : s.expiresAt < now
    /\ tasks # {}

\* ------------------------------------------------------ concurrent signup
MaxPending == 2   \* signup requests suspended at once

Names == {"n", "m"}

\* Signup requests handled concurrently: each looks the email up, waits,
\* and inserts; logins in between.
NextSignup ==
    \/ /\ BagCardinality(handling) < MaxPending
       /\ \E n \in Names, e \in Emails \cup {""} : SignupCheck(n, e, "p")
       /\ UNCHANGED cliVars
    \/ /\ nextTok <= MaxSessions
       /\ \E b \in BagToSet(handling), f \in {"none", "op"} : SignupInsert(b, f)
       /\ UNCHANGED cliVars
    \/ /\ nextTok <= MaxSessions
       /\ \E e \in Emails, pw \in Passwords \cup {""} : Login(e, pw, "none")
       /\ UNCHANGED cliVars

SpecSignup == Init /\ [][NextSignup]_vars

\* C20: no two user records have the same email, whatever the interleaving
\* of the signup requests.
C20_UniqueEmails ==
    \A u \in users, v \in users : u.email = v.email => u = v

\* ---------------------------------------------------------- task fields
MaxFieldTasks == 1   \* tasks created under the task field specification

ClientStamp == 9     \* a timestamp, id or owner a client puts in a body

FieldCreateBodies ==
    { [priority |-> "High"],
      [title |-> ""],
      [title |-> Null],
      [title |-> NonString],
      [title |-> "a"],
      [title |-> "a", priority |-> "Urgent", status |-> "bogus"],
      [title |-> "b", starred |-> TRUE, id |-> ClientStamp, userId |-> ClientStamp,
       createdAt |-> ClientStamp, assignedAt |-> ClientStamp] }
FieldPatchBodies ==
    { [status |-> "bogus"],
      [priority |-> "Urgent"],
      [status |-> "done"],
      [starred |-> TRUE, assignee |-> "z"],
      [deadline |-> "T1"],
      [deadline |-> "junk"],
      [title |-> "c", id |-> ClientStamp, userId |-> ClientStamp,
       createdAt |-> ClientStamp, assignedAt |-> ClientStamp] }

\* One user creating and updating a task with every kind of body.
NextFields ==
    \/ /\ nextTok <= 1
       /\ Signup("n", "a@x", "p", "none")
       /\ UNCHANGED cliVars
    \/ /\ nextId <= MaxFieldTasks
       /\ \E b \in FieldCreateBodies : CreateTask(MyToken, NoToken, b, "none")
       /\ UNCHANGED cliVars
    \/ /\ \E i \in 1..MaxFieldTasks, b \in FieldPatchBodies :
            PatchTask(MyToken, NoToken, i, b, "none")
       /\ UNCHANGED cliVars
    \/ /\ Tick
       /\ UNCHANGED cliVars

SpecFields == Init /\ [][NextFields]_vars

\* C21: a create whose title is missing or empty is answered 400 and
\* inserts nothing; a create answered 201 inserts exactly the returned task,
\* owned by the caller, with the body's priority, status and starred or,
\* when absent, Medium, backlog and false, and with createdAt and
\* assignedAt equal to the server's time whatever the body holds for them.
C21_TitleRequired ==
    (Handled("create") /\ Caller(req'.token) # 0 /\ Get(req'.body, "title", "") = "")
    => (resp'.code = 400 /\ tasks' = tasks)
C21_Stored ==
    (Handled("create") /\ resp'.code = 201)
    => LET d == resp'.body IN
       /\ d \notin tasks /\ tasks' = tasks \cup {d}
       /\ d.userId = Caller(req'.token) /\ d.userId # 0
       /\ d.title = req'.body.title
       /\ d.priority = Get(req'.body, "priority", "Medium")
       /\ d.status = Get(req'.body, "status", "backlog")
       /\ d.starred = Get(req'.body, "starred", FALSE)
       /\ d.createdAt = now /\ d.assignedAt = now
       /\ \A t \in tasks : t.id # d.id
C21_NoInsertOtherwise ==
    (Handled("create") /\ resp'.code # 201) => tasks' = tasks
C21_Create == [][C21_TitleRequired /\ C21_Stored /\ C21_NoInsertOtherwise]_vars

C21_Witness ==
    /\ req.op = "create" /\ resp.code = 201
    /\ Has(req.body, "createdAt") /\ req.body.createdAt # now
    /\ \E t \in tasks :
          /\ t = resp.body /\ t.createdAt = now /\ t.assignedAt = now
          /\ t.userId = 1 /\ t.priority = "Medium" /\ t.status = "backlog"

\* C22: an update changes a field of the stored task only if the field is
\* one of title, priority, status, assignee, starred, deadline and the body
\* holds it, or the field is completedAt and the body sets status to done;
\* the task keeps its fields, and its id, userId, createdAt and assignedAt
\* are the same after every step.
C22_OnlySent ==
    Handled("patch") =>
        \A t \in tasks, u \in tasks' :
            t.id = u.id =>
                /\ DOMAIN u = DOMAIN t
                /\ \A k \in DOMAIN t :
                      u[k] # t[k] =>
                          \/ k \in Mutable /\ Has(req'.body, k)
                          \/ k = "completedAt" /\ SetsStatus(req', "done")
C22_Fixed ==
    \A t \in tasks, u \in tasks' :
        t.id = u.id =>
            /\ t.userId = u.userId
            /\ t.createdAt = u.createdAt
            /\ t.assignedAt = u.assignedAt
C22_SameIds ==
    Handled("patch") => {t.id : t \in tasks} = {u.id : u \in tasks'}
C22_Whitelist == [][C22_OnlySent /\ C22_Fixed /\ C22_SameIds]_vars

C22_Witness ==
    /\ req.op = "patch" /\ resp.code = 200
    /\ Has(req.body, "userId") /\ Has(req.body, "createdAt")
    /\ \E t \in tasks :
          /\ t.id = req.id /\ t.title = req.body.title
          /\ t.userId = 1 /\ t.userId # req.body.userId
          /\ t.createdAt # req.body.createdAt

\* C24: every stored task has a status among backlog, in-progress, review,
\* done and a priority among Low, Medium, High.
C24_Enumerated ==
    \A t \in tasks : t.status \in Columns /\ t.priority \in {"Low", "Medium", "High"}

\* ------------------------------------------------- list, update, delete
\* The tasks of the caller that have the id.
Mine(r) == {t \in tasks : t.id = r.id /\ t.userId = Caller(r.token)}
\* An id that was generated for a task that is no longer stored.
Deleted(i) == i \in 1..(nextId - 1) /\ \A t \in tasks : t.id # i

\* C23: an update or delete by a user for a well-formed id under which
\* that user has no task is answered 404 and leaves the task collection as
\* it was.
C23_NotFound ==
    [][(/\ req'.op \in {"patch", "delete"} /\ now' = now
        /\ Caller(req'.token) # 0
        /\ req'.id # BadId
        /\ Mine(req') = {})
       => (resp'.code = 404 /\ tasks' = tasks)]_vars

C23_Witness ==
    /\ req.op \in {"patch", "delete"} /\ resp.code = 404
    /\ Caller(req.token) # 0
    /\ req.id >= nextId
    /\ \E t \in tasks : t.userId = Caller(req.token)

\* C25: a delete answered 200 removes exactly the caller's task with that
\* id and no other; the id of a deleted task never comes back; no list
\* result holds a task that is not stored; and every update or delete of a
\* deleted id is answered 404.
C25_RemovesOne ==
    (Handled("delete") /\ resp'.code = 200)
    => \E t \in Mine(req') : Mine(req') = {t} /\ tasks' = tasks \ {t} /\ Deleted(t.id)'
C25_StaysDeleted ==
    \A i \in Ids : Deleted(i) => Deleted(i)'
C25_NotListed ==
    (Handled("list") /\ resp'.code = 200)
    => \A k \in 1..Len(resp'.body) : resp'.body[k] \in tasks /\ ~Deleted(resp'.body[k].id)
C25_GoneForUpdates ==
    (req'.op \in {"patch", "delete"} /\ now' = now /\ Deleted(req'.id) /\ Caller(req'.token) # 0)
    => (resp'.code = 404 /\ tasks' = tasks)
C25_Delete ==
    [][C25_RemovesOne /\ C25_StaysDeleted /\ C25_NotListed /\ C25_GoneForUpdates]_vars

C25_Witness ==
    /\ req.op \in {"patch", "delete"} /\ resp.code = 404
    /\ Deleted(req.id)
    /\ \E t \in tasks : t.userId = Caller(req.token)

\* C26: a list answered 200 holds exactly the stored tasks of the caller,
\* each once, a task created later before a task created earlier.
C26_ListResult ==
    (Handled("list") /\ resp'.code = 200)
    => LET b == resp'.body
           own == {t \in tasks : t.userId = Caller(req'.token)}
       IN /\ {b[k] : k \in 1..Len(b)} = own
          /\ Len(b) = Cardinality(own)
          /\ \A j \in 1..Len(b), k \in 1..Len(b) :
                j < k => (b[j].id > b[k].id /\ b[j].createdAt >= b[k].createdAt)
C26_List == [][C26_ListResult]_vars

C26_Witness ==
    /\ req.op = "list" /\ resp.code = 200
    /\ Len(resp.body) = 2
    /\ resp.body[1].id > resp.body[2].id
    /\ \E t \in tasks : t.userId = Caller(req.token)

\* --------------------------------------------------------- store failures
MaxFailTasks == 1   \* tasks created under the store failure specification

\* One user; every endpoint requested while the store works, while the
\* session lookup fails and while the handler's own store call fails.
NextFail ==
    \/ /\ nextTok <= MaxSessions
       /\ \E f \in Faults : Signup("n", "a@x", "p", f)
       /\ UNCHANGED cliVars
    \/ /\ nextTok <= MaxSessions
       /\ \E f \in Faults : Login("a@x", "p", f)
       /\ UNCHANGED cliVars
    \/ /\ \E f \in Faults : Logout(MyToken, NoToken, f)
       /\ UNCHANGED cliVars
    \/ /\ \E f \in Faults : Me(MyToken, NoToken, f)
       /\ UNCHANGED cliVars
    \/ /\ \E f \in Faults : ListTasks(MyToken, NoToken, f)
       /\ UNCHANGED cliVars
    \/ /\ nextId <= MaxFailTasks
       /\ \E f \in Faults : CreateTask(MyToken, NoToken, [title |-> "a"], f)
       /\ UNCHANGED cliVars
    \/ /\ \E i \in 1..MaxFailTasks, f \in Faults :
            PatchTask(MyToken, NoToken, i, [starred |-> TRUE], f)
       /\ UNCHANGED cliVars
    \/ /\ \E i \in 1..MaxFailTasks, f \in Faults : DeleteTask(MyToken, NoToken, i, f)
       /\ UNCHANGED cliVars

SpecFail == Init /\ [][NextFail]_vars

\* C27: every API request that was handled has been answered, with an
\* error status when the store failed during it.
C27_Answered ==
    req.op # "none" =>
        /\ resp.code # 0
        /\ req.fault # "none" => resp.code >= 400

\* A signup request at its lookup (the step suspends it or answers it).
SignupLookup ==
    Handled("signup") /\ BagCardinality(handling') >= BagCardinality(handling)
MissingField(r) == \E k \in DOMAIN r.body : r.body[k] = ""
Registered(email) == \E u \in users : u.email = email

\* C28: a signup with a missing field is answered 400 and one for a
\* registered email 409; a login with a missing field is answered 400 and
\* one with an unknown email or a wrong password 401; and a signup answered
\* 400 or 409 and a login answered 400 or 401 leave users and sessions as
\* they were.
C28_SignupFails ==
    SignupLookup =>
        /\ MissingField(req') => resp'.code = 400
        /\ (~MissingField(req') /\ Registered(req'.body.email)) => resp'.code = 409
C28_LoginFails ==
    Handled("login") =>
        /\ MissingField(req') => resp'.code = 400
        /\ (~MissingField(req')
            /\ (~Registered(req'.body.email) \/ req'.body.password # "p"))
           => resp'.code = 401
C28_NothingCreated ==
    (\/ Handled("signup") /\ resp'.code \in {400, 409}
     \/ Handled("login") /\ resp'.code \in {400, 401})
    => (users' = users /\ sessions' = sessions /\ nextTok' = nextTok)
C28_FailedAuth == [][C28_SignupFails /\ C28_LoginFails /\ C28_NothingCreated]_vars

C28_Witness ==
    /\ req.op = "login" /\ resp.code = 401
    /\ Registered(req.body.email) /\ req.body.password = "q"
    /\ sessions # {}

\* ------------------------------------------------- pinned list and feed
MaxPinTasks == 7      \* length of the local list given to the pinned list
MaxRecentTasks == 6   \* length of the local list given to the activity feed
MaxCreated == 2       \* largest createdAt of those tasks

\* A record of the local list as loadTasksFromAPI and the create handlers
\* build it; NoTime is a record without createdAt.
FeedTask(i, starred, created) ==
    [id |-> i, title |-> "a", priority |-> "Medium", status |-> "backlog",
     assignee |-> "", starred |-> starred, createdAt |-> created,
     assignedAt |-> created, deadline |-> NoTime, completedAt |-> NoTime]

\* A page whose local list holds the given tasks, nothing rendered yet.
InitFeed(list) ==
    /\ users = {} /\ sessions = {} /\ tasks = {}
    /\ nextId = 1 /\ nextTok = 1 /\ now = 0
    /\ req = NoReq /\ resp = Answer(0, NoBody)
    /\ handling = EmptyBag
    /\ cards = EmptyFn /\ listeners = 0 /\ calls = EmptyBag
    /\ widget = ZeroCount /\ counts = ZeroCount
    /\ pinned = <<>> /\ recent = <<>>
    /\ data = "tasks" /\ breakdown = NoBreakdown
    /\ local = list

InitPinned ==
    \E n \in 0..MaxPinTasks : \E st \in [1..n -> BOOLEAN] :
        InitFeed([i \in 1..n |-> FeedTask(i, st[i], i)])

\* renderPinnedTasks runs on the local list.
RenderPinned ==
    /\ pinned' = renderPinnedTasks(local)
    /\ UNCHANGED <<local, cards, counts, listeners, calls, widget, recent, data, breakdown>>
    /\ UNCHANGED srvVars

NextPinned == RenderPinned

SpecPinned == InitPinned /\ [][NextPinned]_vars

StarredAt(loc) == {i \in 1..Len(loc) : loc[i].starred}
Rank(loc, i) == Cardinality({j \in StarredAt(loc) : j < i}) + 1

\* C29: the pinned list rendered from a local list holds the starred tasks
\* only, in list order, the first 6 of them, and all of them when fewer
\* than 6 are starred.
C29_FirstSixStarred ==
    [][/\ Len(pinned') = Min(6, Cardinality(StarredAt(local)))
       /\ \A i \in StarredAt(local) :
             Rank(local, i) <= 6 => pinned'[Rank(local, i)] = local[i].id
       /\ \A k \in 1..Len(pinned') :
             \E i \in StarredAt(local) : local[i].id = pinned'[k]]_vars

C29_Witness ==
    /\ Len(local) = MaxPinTasks
    /\ Cardinality(StarredAt(local)) = 6
    /\ ~local[1].starred
    /\ Len(pinned) = 6 /\ pinned[1] = local[2].id /\ pinned[6] = local[7].id

InitRecent ==
    \E n \in 0..MaxRecentTasks : \E cr \in [1..n -> {NoTime} \cup 1..MaxCreated] :
        InitFeed([i \in 1..n |-> FeedTask(i, FALSE, cr[i])])

\* renderRecentActivity runs on the local list.
RenderRecent ==
    /\ recent' = renderRecentActivity(local)
    /\ UNCHANGED <<local, cards, counts, listeners, calls, widget, pinned, data, breakdown>>
    /\ UNCHANGED srvVars

NextRecent == RenderRecent

SpecRecent == InitRecent /\ [][NextRecent]_vars

CreatedOf(loc, id) == TaskOf(loc, id).createdAt

\* C30: the activity feed rendered from a local list holds 5 of its tasks
\* (all of them when it has fewer), each once, none of the tasks left out
\* created later than one shown, in the order newest first; rendering
\* leaves the local list as it was.
C30_FiveNewest ==
    [][/\ local' = local
       /\ Len(recent') = Min(5, Len(local))
       /\ \A k \in 1..Len(recent') : recent'[k] \in LocalIds(local)
       /\ \A j \in 1..Len(recent'), k \in 1..Len(recent') :
             /\ j # k => recent'[j] # recent'[k]
             /\ j < k => CreatedOf(local, recent'[j]) >= CreatedOf(local, recent'[k])
       /\ \A i \in LocalIds(local) :
             (\A k \in 1..Len(recent') : recent'[k] # i)
             => \A k \in 1..Len(recent') :
                   CreatedOf(local, i) <= CreatedOf(local, recent'[k])]_vars

C30_Witness ==
    /\ Len(local) = 6 /\ Len(recent) = 5
    /\ \A k \in 1..5 : recent[k] # local[1].id
    /\ recent[1] = local[6].id
    /\ CreatedOf(local, recent[1]) > CreatedOf(local, recent[5])

\* -------------------------------------------------------------- page load
MaxLoadTasks == 2   \* tasks created under the page load specification

\* What fetch('/data/app-data.json') and response.json() give loadData: the
\* fetch rejects or answers a failure status ("fail"), or the file holds
\* null, an object without tasks, or an object whose tasks is FileTasks.
Files == {"fail", Null, "object", "tasks"}
FileTasks == <<FeedTask(ClientStamp, FALSE, 1)>>

\* The record tasks.map builds of a task the API returned (lines 67-76).
FromAPI(t) ==
    [id |-> t.id, title |-> t.title,
     priority |-> IF t.priority = "" THEN "Medium" ELSE t.priority,
     status |-> IF t.status = "" THEN "backlog" ELSE t.status,
     assignee |-> t.assignee, starred |-> t.starred,
     createdAt |-> IF t.createdAt \in {0, NoTime} THEN now ELSE t.createdAt,
     assignedAt |-> NoTime, deadline |-> NoTime, completedAt |-> NoTime]

loadTasksNoFallback(d, loc, rejected, reply) ==
    IF d = Null THEN [data |-> "throw", local |-> <<>>]
    ELSE IF ~rejected /\ Ok(reply.code)
    THEN [data |-> "tasks",
          local |-> [k \in 1..Len(reply.body) |-> FromAPI(reply.body[k])]]
    ELSE [data |-> d, local |-> loc]

\* loadTasksFromAPI (lines 60-80).  d is this.data and loc its tasks when it
\* is called; rejected is a fetch that rejects, reply the server's answer
\* otherwise.  With this.data null both the assignment and the catch block
\* throw ("throw"); an empty list is truthy, so the catch block keeps it.
loadTasksFromAPI(d, loc, rejected, reply) ==
    IF d = Null THEN [data |-> "throw", local |-> <<>>]
    ELSE IF ~rejected /\ Ok(reply.code)
    THEN [data |-> "tasks",
          local |-> [k \in 1..Len(reply.body) |-> FromAPI(reply.body[k])]]
    ELSE IF d = "tasks" THEN [data |-> d, local |-> loc]
    ELSE [data |-> "tasks", local |-> <<>>]

\* loadData (lines 32-58): whatever throws before the user details are
\* loaded ends in the fallback structure, whose tasks is [].
loadData(file, rejected, reply) ==
    LET fallback == [data |-> "tasks", local |-> <<>>]
        r == loadTasksFromAPI(file, IF file = "tasks" THEN FileTasks ELSE <<>>,
                              rejected, reply)
    IN IF file = "fail" \/ r.data = "throw" THEN fallback ELSE r

\* A page is opened: the constructor and init up to the end of loadData, on
\* a fresh document.  The list request reaches the server unless the fetch
\* rejects.
LoadData(file, token, rejected, fault) ==
    LET reply == ListHandler(token, fault)
        r == loadData(file, rejected, reply)
        asks == file \notin {"fail", Null} /\ ~rejected
    IN /\ data' = r.data
       /\ local' = r.local
       /\ cards' = EmptyFn /\ counts' = ZeroCount /\ listeners' = 0
       /\ calls' = EmptyBag /\ widget' = ZeroCount
       /\ pinned' = <<>> /\ recent' = <<>>
       /\ req' = IF asks THEN Request("list", token, NoToken, BadId, NoBody, fault) ELSE req
       /\ resp' = IF asks THEN Answer(reply.code, reply.body) ELSE resp
       /\ UNCHANGED <<users, sessions, tasks, nextId, nextTok, now, handling, breakdown>>

\* The rest of init on the tasks page: initTasksPage (lines 542-548) gives
\* this.data a tasks list if it has none and renders the board, and the
\* widget is set.
InitPage ==
    /\ listeners = 0
    /\ data # Null
    /\ data' = "tasks"
    /\ local' = IF data = "tasks" THEN local ELSE <<>>
    /\ Rerender(local')
    /\ UNCHANGED <<calls, pinned, recent, breakdown>>
    /\ UNCHANGED srvVars

LoadCreateBodies == { [title |-> "a"], [title |-> "b", status |-> "bogus", starred |-> TRUE] }

\* One user whose tasks are created through the API; the tasks page is
\* opened with any data file, with and without the token, while the list
\* request succeeds, is refused, fails in the store or never arrives.
NextLoad ==
    \/ /\ nextTok <= 1
       /\ Signup("n", "a@x", "p", "none")
       /\ UNCHANGED cliVars
    \/ /\ nextId <= MaxLoadTasks
       /\ \E b \in LoadCreateBodies : CreateTask(MyToken, NoToken, b, "none")
       /\ UNCHANGED cliVars
    \/ /\ Tick
       /\ UNCHANGED cliVars
    \/ \E f \in Files, t \in {NoToken, MyToken}, rj \in BOOLEAN, fl \in Faults :
          LoadData(f, t, rj, fl)
    \/ InitPage

SpecLoad == Init /\ [][NextLoad]_vars

\* C31: after loadData this.data.tasks is a list, and when the list request
\* failed (the fetch rejected or the answer was not a success) it is the
\* empty list or the list the data file held.
C31_AlwaysList ==
    [][\A f \in Files, t \in {NoToken, MyToken}, rj \in BOOLEAN, fl \in Faults :
          LoadData(f, t, rj, fl)
          => /\ data' = "tasks"
             /\ DOMAIN local' = 1..Len(local')
             /\ (rj \/ ~Ok(ListHandler(t, fl).code))
                => (local' = <<>> \/ (f = "tasks" /\ local' = FileTasks))]_vars

C31_Witness ==
    /\ req.op = "list" /\ resp.code = 500
    /\ tasks # {}
    /\ listeners = 0
    /\ data = "tasks" /\ local = FileTasks

\* ----------------------------------------------------- deadline breakdown
MaxDeadlineTasks == 2   \* tasks stored when the analytics page is opened

NearMs == 1000 * 60 * 60 * 48

\* fetchTasks (analytics.js lines 3-13): the list the API returns, or the
\* page's own task list when the request fails.
fetchTasks(rejected, reply) ==
    IF ~rejected /\ Ok(reply.code) THEN reply.body
    ELSE IF data = "tasks" THEN local ELSE <<>>

\* The class of one task that has a deadline (lines 114-118).
Classify(t, at) ==
    LET isOverdue == at > t.deadline /\ t.status # "done"
        isNear == ~isOverdue /\ t.deadline - at <= NearMs
    IN IF isOverdue THEN "overdue" ELSE IF isNear THEN "near" ELSE "upcoming"

\* The three counts of the tasks that have a deadline (lines 98-118).
DeadlineBreakdown(list, at) ==
    LET due == {k \in 1..Len(list) : list[k].deadline # NoTime}
        n(c) == Cardinality({k \in due : Classify(list[k], at) = c})
    IN [overdue |-> n("overdue"), near |-> n("near"), upcoming |-> n("upcoming")]

\* The analytics page is opened: its DOMContentLoaded handler fetches the
\* tasks and shows the deadline counts.
ShowAnalytics(token, rejected, fault) ==
    LET reply == ListHandler(token, fault) IN
    /\ breakdown' = DeadlineBreakdown(fetchTasks(rejected, reply), now)
    /\ req' = IF rejected THEN req ELSE Request("list", token, NoToken, BadId, NoBody, fault)
    /\ resp' = IF rejected THEN resp ELSE Answer(reply.code, reply.body)
    /\ UNCHANGED <<users, sessions, tasks, nextId, nextTok, now, handling>>
    /\ UNCHANGED <<local, cards, counts, listeners, calls, widget, pinned, recent, data>>

\* The deadlines of the stored tasks: none, just past, now, and around the
\* end of the 48 hour window.
Deadlines == {NoTime, MaxTime - 1, MaxTime, MaxTime + NearMs, MaxTime + NearMs + 1}

\* A task as POST and PATCH store it.
DueTask(i, status, deadline) ==
    [id |-> i, title |-> "a", priority |-> "Medium", status |-> status,
     assignee |-> "", starred |-> FALSE, createdAt |-> 0, assignedAt |-> 0,
     userId |-> 1, deadline |-> deadline,
     completedAt |-> IF status = "done" THEN 0 ELSE NoTime]

\* A signed-up user with some stored tasks, at the time MaxTime.
InitDeadline ==
    /\ users = {[id |-> 1, name |-> "n", email |-> "a@x", passwordHash |-> hashPassword("p", 1)]}
    /\ sessions = {[token |-> MyToken, userId |-> 1, createdAt |-> 0, expiresAt |-> SessionTTL]}
    /\ \E n \in 0..MaxDeadlineTasks :
          \E st \in [1..n -> {"backlog", "done"}], dl \in [1..n -> Deadlines] :
              /\ tasks = {DueTask(i, st[i], dl[i]) : i \in 1..n}
              /\ nextId = n + 1
    /\ nextTok = 2
    /\ now = MaxTime
    /\ req = NoReq
    /\ resp = Answer(0, NoBody)
    /\ handling = EmptyBag
    /\ ClientInit

NextDeadline ==
    \E rj \in BOOLEAN, fl \in Faults : ShowAnalytics(MyToken, rj, fl)

SpecDeadline == InitDeadline /\ [][NextDeadline]_vars

\* The counts the claim describes, of a list at a time.
Expected(list, at) ==
    LET due == {k \in 1..Len(list) : list[k].deadline # NoTime}
    IN [overdue |-> Cardinality({k \in due : list[k].deadline < at}),
        near |-> Cardinality({k \in due : list[k].deadline >= at
                                          /\ list[k].deadline - at <= NearMs}),
        upcoming |-> Cardinality({k \in due : list[k].deadline - at > NearMs})]

\* C32: the counts shown are those of the tasks with a deadline before now
\* (overdue), with a deadline not past and at most 48 hours ahead (due
\* soon) and of the others with a deadline (upcoming), and they sum to the
\* number of tasks with a deadline.
C32_Classified ==
    [][\A rj \in BOOLEAN, fl \in Faults :
          ShowAnalytics(MyToken, rj, fl)
          => LET list == fetchTasks(rj, ListHandler(MyToken, fl)) IN
             /\ breakdown' = Expected(list, now)
             /\ breakdown'.overdue + breakdown'.near + breakdown'.upcoming
                = Cardinality({k \in 1..Len(list) : list[k].deadline # NoTime})]_vars

\* ---------------------------------------------------------- one drop, one call
\* What the drop listeners registered on a column do to the page when the
\* card of task i is dropped on it.
Gesture(i, col) ==
    DropEvent(listeners,
              [local |-> local, cards |-> cards, counts |-> counts,
               widget |-> widget, issued |-> <<>>], i, col)

\* C33: a drop issues at most one update call however many drop listeners
\* the renders have registered, and none, changing nothing, when the column
\* is the one of the task's local status; the step that ends a drop's call
\* issues no other call.
C33_AtMostOne ==
    \A i \in Ids, col \in Columns :
        LET g == Gesture(i, col) IN
        /\ Len(g.issued) <= 1
        /\ (i \in LocalIds(local) /\ TaskOf(local, i).status = col)
           => /\ g.issued = <<>>
              /\ g.local = local
              /\ g.cards = cards
              /\ g.counts = counts
C33_NoRetry ==
    \A c \in InFlight :
        (c.kind = "drop" /\ Completes(c)) => calls' = Settle(calls, c)
C33_SingleAttempt == [][C33_AtMostOne /\ C33_AtMostOne' /\ C33_NoRetry]_vars

C33_Witness ==
    /\ listeners >= 2
    /\ BagCardinality(calls) = 1
    /\ \E c \in InFlight :
          /\ c.kind = "drop" /\ c.stage = "sent"
          /\ TaskOf(local, c.id).status = c.body.status
          /\ Gesture(c.id, c.body.status).issued = <<>>

\* ------------------------------------------------------- overlapping drags
MaxRaceCalls == 2   \* update calls of drops in flight at once
MaxRaceTasks == 1   \* tasks created under the overlapping drag specification

\* One task dragged again while the call of the drag before is in flight.
NextRace ==
    \/ /\ nextId + Creating <= MaxRaceTasks
       /\ QuickAdd("a", "Medium")
       /\ UNCHANGED srvVars
    \/ /\ \E i \in 1..MaxRaceTasks, col \in DropTargets : DropWithin(i, col, MaxRaceCalls)
       /\ UNCHANGED srvVars
    \/ \E c \in InFlight, f \in {"none", "op"} : Serve(c, f)
    \/ \E c \in InFlight : Complete(c)
    \/ \E c \in InFlight : NetFail(c)

SpecRace == InitClient /\ [][NextRace]_vars

\* d is the call of a drag of the same task made after the drag of c, and
\* the local status is the one that drag set.
Later(c, d) ==
    /\ c.kind = "drop" /\ d.kind = "drop" /\ d # c /\ d.id = c.id
    /\ d.prev = c.body.status
    /\ c.id \in LocalIds(local)
    /\ TaskOf(local, c.id).status = d.body.status

\* C34: when the call of a drag fails while the call of a later drag of the
\* same task is in flight, the rollback leaves the local status the one the
\* later drag set.
C34_RollbackKeepsLater ==
    [][\A c \in InFlight, d \in InFlight :
          (Later(c, d) /\ NetFail(c))
          => TaskOf(local', c.id).status = d.body.status]_vars

\* ------------------------------------------------------ concurrent updates
MaxWrites == 2   \* update requests suspended at once

\* PATCH /api/tasks/:id up to its await (lines 82-89 and 183-205): the
\* caller is resolved and the $set document is built at the current time;
\* the request is answered 401 or 500, or goes on to wait for its
\* findOneAndUpdate.
PatchPrepare(token, id, body) ==
    LET uid == authRequired(token, "none") IN
    /\ IF uid = 0
       THEN /\ req' = Request("patch", token, NoToken, id, body, "none")
            /\ resp' = Answer(401, NoBody)
            /\ UNCHANGED handling
       ELSE IF id = BadId
       THEN /\ req' = Request("patch", token, NoToken, id, body, "none")
            /\ resp' = Answer(500, NoBody)
            /\ UNCHANGED handling
       ELSE /\ handling' = handling (+) SetToBag({[token |-> token, id |-> id, body |-> body,
                                                  uid |-> uid, update |-> PatchUpdate(body)]})
            /\ UNCHANGED <<req, resp>>
    /\ UNCHANGED <<users, sessions, tasks, nextId, nextTok, now>>

\* findOneAndUpdate of a suspended update and its answer (lines 201-210):
\* one write of one document.
PatchWrite(p, fault) ==
    LET hit == Owned(p.id, p.uid) IN
    /\ BagIn(p, handling)
    /\ handling' = handling (-) SetToBag({p})
    /\ req' = Request("patch", p.token, NoToken, p.id, p.body, fault)
    /\ IF fault # "none"
       THEN resp' = Answer(500, NoBody) /\ UNCHANGED tasks
       ELSE IF hit = {}
       THEN resp' = Answer(404, NoBody) /\ UNCHANGED tasks
       ELSE LET old == CHOOSE t \in hit : TRUE
                new == SetFields(old, p.update)
            IN /\ tasks' = (tasks \ {old}) \cup {new}
               /\ resp' = Answer(200, new)
    /\ UNCHANGED <<users, sessions, nextId, nextTok, now>>

WriteBodies ==
    { [starred |-> TRUE], [title |-> "d", assignee |-> "z"], [title |-> "c", status |-> "done"] }

\* One task of one user updated by requests whose handlers run
\* concurrently: each builds its update, waits, and writes.
NextWrites ==
    \/ /\ nextTok <= 1
       /\ Signup("n", "a@x", "p", "none")
       /\ UNCHANGED cliVars
    \/ /\ tasks = {}
       /\ CreateTask(MyToken, NoToken, [title |-> "a"], "none")
       /\ UNCHANGED cliVars
    \/ /\ BagCardinality(handling) < MaxWrites
       /\ \E t \in tasks, b \in WriteBodies : PatchPrepare(MyToken, t.id, b)
       /\ UNCHANGED cliVars
    \/ /\ \E p \in BagToSet(handling) : PatchWrite(p, "none")
       /\ UNCHANGED cliVars
    \/ /\ Tick
       /\ UNCHANGED cliVars

SpecWrites == Init /\ [][NextWrites]_vars

\* C35: the write of an update changes, in the one task it is for, exactly
\* the fields of its $set document and leaves the other fields and the
\* other tasks as they are; so when two updates of a task are written one
\* after the other, whatever the order in which they were received, every
\* field set by the second has the second's value and every field set only
\* by the first still has the first's value.
C35_OnlyItsFields ==
    \A p \in BagToSet(handling) :
        (PatchWrite(p, "none") /\ resp'.code = 200)
        => \E t \in tasks, u \in tasks' :
              /\ t.id = p.id /\ u.id = p.id
              /\ tasks' = (tasks \ {t}) \cup {u}
              /\ \A k \in DOMAIN t :
                    u[k] = IF k \in DOMAIN p.update THEN p.update[k] ELSE t[k]
C35_BothPresent ==
    \A q \in BagToSet(handling) :
        (/\ req.op = "patch" /\ resp.code = 200 /\ req.id = q.id
         /\ PatchWrite(q, "none") /\ resp'.code = 200)
        => \A u \in tasks' :
              u.id = q.id =>
                 \A k \in Mutable :
                    /\ Has(q.body, k) => u[k] = q.body[k]
                    /\ (Has(req.body, k) /\ ~Has(q.body, k)) => u[k] = req.body[k]
C35_AtomicWrites == [][C35_OnlyItsFields /\ C35_BothPresent]_vars

C35_Witness ==
    /\ req.op = "patch" /\ resp.code = 200 /\ req.body = [starred |-> TRUE]
    /\ handling = EmptyBag
    /\ \E t \in tasks :
          /\ t.id = req.id /\ t.starred /\ t.title = "c" /\ t.assignee = "z"
          /\ t.status = "done" /\ t.completedAt < now

\* ---------------------------------------------------- board and local list
MaxCardTasks == 1   \* tasks created under the board specification

\* The tasks page opened on tasks stored through the API, then drags, edits
\* and deletes, a drag also while another call is in flight, and the calls'
\* progress.
NextBoard ==
    \/ /\ nextId <= MaxCardTasks
       /\ \E b \in LoadCreateBodies : CreateTask(MyToken, NoToken, b, "none")
       /\ UNCHANGED cliVars
    \/ \E rj \in BOOLEAN : LoadData("object", MyToken, rj, "none")
    \/ InitPage
    \/ /\ \E i \in LocalIds(local), col \in DropTargets : DropWithin(i, col, MaxRaceCalls)
       /\ UNCHANGED srvVars
    \/ /\ \E i \in LocalIds(local) : EditSubmit(i, EditBody(i, "c", "review"))
       /\ UNCHANGED srvVars
    \/ /\ \E i \in LocalIds(local) : DeleteClick(i)
       /\ UNCHANGED srvVars
    \/ \E c \in InFlight, f \in {"none", "op"} : Serve(c, f)
    \/ \E c \in InFlight : Complete(c)
    \/ \E c \in InFlight : NetFail(c)

SpecBoard == InitClient /\ [][NextBoard]_vars

\* C36: whenever no call of a handler is in flight on a page whose board has
\* been rendered, every local task has exactly one card, in the column of
\* its local status (backlog when the status is none of the four), and the
\* count shown for each column is the number of local tasks in it.
C36_BoardConsistent ==
    (listeners > 0 /\ calls = EmptyBag)
    => /\ cards = RenderBoard(local)
       /\ counts = CardCount(RenderBoard(local))

\* ------------------------------------------------------------ logout frame
MaxOpenSessions == 3   \* sessions created under the logout specification

\* Two users with several sessions and a task; logout and me with any
\* token, also while the store fails.
NextLogout ==
    \/ /\ nextTok <= MaxOpenSessions
       /\ \E e \in Emails : Signup("n", e, "p", "none")
       /\ UNCHANGED cliVars
    \/ /\ nextTok <= MaxOpenSessions
       /\ \E e \in Emails : Login(e, "p", "none")
       /\ UNCHANGED cliVars
    \/ /\ tasks = {}
       /\ CreateTask(MyToken, NoToken, [title |-> "a"], "none")
       /\ UNCHANGED cliVars
    \/ /\ \E t \in 0..MaxOpenSessions, f \in Faults : Logout(t, NoToken, f)
       /\ UNCHANGED cliVars
    \/ /\ \E t \in 0..MaxOpenSessions : Me(t, NoToken, "none")
       /\ UNCHANGED cliVars

SpecLogout == Init /\ [][NextLogout]_vars

\* C37: a logout answered 200 removes the one session of the token
\* presented and nothing else: the other sessions, of the same user and of
\* other users, the users and the tasks are as before and every other
\* token resolves as before; a logout answered otherwise changes nothing.
C37_OnlyThatSession ==
    (Handled("logout") /\ resp'.code = 200)
    => /\ \E s \in sessions : s.token = req'.token /\ sessions' = sessions \ {s}
       /\ \A s \in sessions : s.token # req'.token => s \in sessions'
       /\ \A t \in 0..MaxOpenSessions : t # req'.token => getSession(t)' = getSession(t)
C37_RestUnchanged ==
    Handled("logout")
    => /\ users' = users /\ tasks' = tasks /\ nextId' = nextId /\ nextTok' = nextTok
       /\ resp'.code # 200 => sessions' = sessions
C37_LogoutFrame == [][C37_OnlyThatSession /\ C37_RestUnchanged]_vars

C37_Witness ==
    /\ req.op = "logout" /\ resp.code = 200 /\ req.token = MyToken
    /\ Stored(MyToken) = {}
    /\ \E s \in sessions : s.userId = 1 /\ getSession(s.token) = s
    /\ \E s \in sessions : s.userId = 2 /\ getSession(s.token) = s
    /\ tasks # {}

\* ------------------------------------------------------- done and completedAt
\* C38: every stored task whose status is done has a completedAt value.
C38_DoneIsStamped ==
    \A t \in tasks : t.status = "done" => t.completedAt # NoTime

MaxEditTasks == 1   \* tasks created under the edit dialog specification

\* One task edited through the dialog while the clock runs: the dialog is
\* saved with the title retyped and either done selected or the status
\* selection left at the task's local status.
NextEdit ==
    \/ /\ nextId + Creating <= MaxEditTasks
       /\ QuickAdd("a", "Medium")
       /\ UNCHANGED srvVars
    \/ /\ \E i \in LocalIds(local) : \E st \in {"done", TaskOf(local, i).status} :
            EditSubmit(i, EditBody(i, "c", st))
       /\ UNCHANGED srvVars
    \/ \E c \in InFlight : Serve(c, "none")
    \/ \E c \in InFlight : Complete(c)
    \/ \E c \in InFlight : NetFail(c)
    \/ /\ Tick
       /\ UNCHANGED cliVars

SpecEdit == InitClient /\ [][NextEdit]_vars

\* C39: when the server handles the save of the edit dialog of a task that
\* is stored as done with a completedAt value, and the dialog's status is
\* done as before, the stored completedAt stays what it was.
C39_EditKeepsStamp ==
    [][\A c \in InFlight, t \in tasks :
          (/\ c.kind = "edit" /\ c.stage = "sent" /\ Serve(c, "none")
           /\ t.id = c.id /\ t.status = "done" /\ t.completedAt # NoTime
           /\ c.body.status = "done")
          => \A u \in tasks' : u.id = c.id => u.completedAt = t.completedAt]_vars

====
